---- MODULE Spec2Model ----
(***************************************************************************)
(* Model of the Elyments channel plugin (clawdbotElyments):                *)
(*   - the session manager      (src/src/elyments/auth.ts)                 *)
(*   - the credential store     (src/src/elyments/accounts.ts, 552-735)    *)
(*   - the streaming client     (src/src/elyments/accounts.ts, 143-527,    *)
(*                               src/src/elyments/client.ts)               *)
(*   - the inbound policy gate  (src/src/elyments/monitor.ts)              *)
(* Every await of the TypeScript source is a scheduling point: an async    *)
(* function is a sequence of atomic steps, one per stretch of code between *)
(* two awaits.                                                             *)
(***************************************************************************)
EXTENDS Integers, Sequences, FiniteSets, TLC

(***************************************************************************)
(* Bounds of the model.                                                    *)
(***************************************************************************)
NumCalls == 1        \* withAutoRefresh invocations running concurrently
NumConcurrent == 2   \* the same, where two invocations share the session
MaxMint == 2         \* successful refresh responses the platform issues
MaxTicks == 1        \* clock advances
MaxConnects == 1     \* connect() calls while one connection is followed (SpecConn)
MaxReconnects == 2   \* connect() calls while reconnection is followed (SpecReconnect)
MaxSends == 1        \* sendMessageElyments calls
MaxPings == 1        \* liveness probes sent
MaxOut == 1          \* stanzas written by the send calls
MaxIn == 1           \* stanzas decoded (SpecWire)
MaxRuns == 2         \* calls of monitorElymentsProvider
MaxDevices == 2      \* device identities created
MaxResolves == 2     \* calls of resolveRecipient
MaxReplies == 1      \* replies the dispatcher delivers per event
MaxMsgs == 2         \* inbound events handled (SpecGate)

(***************************************************************************)
(* Option values: <<>> is null/undefined, <<x>> is x.                      *)
(***************************************************************************)
Null == <<>>
Some(x) == <<x>>
IsNull(o) == o = <<>>
Val(o) == o[1]

Includes(seq, w) == \E i \in DOMAIN seq : seq[i] = w

(***************************************************************************)
(* Tokens.  A token is [id, exp]: id 0 is the empty string, exp is the     *)
(* "exp" claim of the JWT payload in seconds, NoExp when the payload has   *)
(* no such claim, Undecodable when the payload does not decode.            *)
(***************************************************************************)
NoExp == 0 - 1
Undecodable == 0 - 2
BufferMs == 60000
TickMs == 30 * 1000
EmptyToken == [id |-> 0, exp |-> NoExp]
ExpClaims == {NoExp, 60, 90, 600}

\* accounts.ts 709-718: parseJwtPayload; Null when the token has not three
\* parts or its payload is not base64 of JSON.
parseJwtPayload(token) ==
    IF token.id = 0 \/ token.exp = Undecodable THEN Null ELSE Some([exp |-> token.exp])

\* accounts.ts 698-707: Date.now() >= exp * 1000 - bufferMs; a missing or
\* zero exp claim (!payload?.exp) and an undecodable payload give false.
isTokenExpiring(token, t) ==
    LET payload == parseJwtPayload(token)
    IN  IF IsNull(payload) \/ Val(payload).exp = NoExp \/ Val(payload).exp = 0
        THEN FALSE
        ELSE t >= Val(payload).exp * 1000 - BufferMs

(***************************************************************************)
(* Sessions and the credential store.                                      *)
(***************************************************************************)
MkSession(u, a, c, r, t) ==
    [userId |-> u, accessToken |-> a, chatAccessToken |-> c,
     refreshToken |-> r, savedAt |-> t]

Tok(n, e) == [id |-> n, exp |-> e]

\* Session records the store can hold when the program starts: written by an
\* earlier verifyOtp/refreshSession (both tokens non-empty, refresh token
\* possibly empty, auth.ts 110-116), or absent.
InitialSessions ==
    { MkSession("u1", Tok(1, e), Tok(1, NoExp), r, 0) :
        e \in {NoExp, 60, 90}, r \in {EmptyToken, Tok(1, NoExp)} }

(***************************************************************************)
(* Error messages are sequences of words; String.includes(w) for a word w  *)
(* is membership of the word (case-sensitive, as in JavaScript).           *)
(***************************************************************************)
ErrMsgs ==
    { <<"Failed", "401">>, <<"unauthorized">>, <<"token", "expired">>,
      <<"Unauthorized">>, <<"Failed", "500">> }

MkErr(src, msg) == [src |-> src, msg |-> msg]
NoErr == MkErr("none", <<>>)

\* auth.ts 293
MutAuthShaped(message) == TRUE
AuthShaped(message) ==
    \/ Includes(message, "401")
    \/ Includes(message, "unauthorized")
    \/ Includes(message, "expired")

(***************************************************************************)
(* Responses of the platform's refresh endpoint (RefreshToken/V4).         *)
(* n is the id of the tokens the platform mints for this response.         *)
(***************************************************************************)
MkResp(status, body, flag, u, a, c, r) ==
    [status |-> status, body |-> body, isSuccess |-> flag,
     userId |-> u, access |-> a, chat |-> c, refresh |-> r]

OkResponses(n) ==
    { MkResp(200, "json", "absent", u, Some(Tok(n, e)), Some(Tok(n, NoExp)), r) :
        u \in {Null, Some("u1")}, e \in {NoExp, 90},
        r \in {Null, Some(Tok(n, NoExp))} }

BadResponses ==
    { MkResp(401, "json", "absent", Null, Null, Null, Null),
      MkResp(500, "text", "absent", Null, Null, Null, Null),
      MkResp(200, "text", "absent", Null, Null, Null, Null),
      MkResp(200, "json", "false", Null, Null, Null, Null),
      MkResp(200, "json", "absent", Null, Null, Some(Tok(9, NoExp)), Null) }

\* auth.ts 220, 237-245: the requests refreshSession cannot get a result from.
\* fetch rejects when the platform cannot be reached (status 0), and the JSON
\* body null makes the read of data.IsSuccess throw.
ThrowingResponses ==
    { MkResp(0, "none", "absent", Null, Null, Null, Null),
      MkResp(200, "null", "absent", Null, Null, Null, Null) }

\* auth.ts 220, 245: the error refreshSession throws for these.
refreshThrows(resp) ==
    IF resp.status = 0 THEN <<"fetch", "failed">>
    ELSE <<"TypeError:", "Cannot", "read", "properties", "of", "null">>

\* auth.ts 177-199
MutExtractRefreshedSession(resp, existing, t) ==
    IF IsNull(resp.userId) \/ IsNull(resp.access) \/ IsNull(resp.chat)
    THEN Null
    ELSE Some(MkSession(Val(resp.userId), Val(resp.access), Val(resp.chat),
                        IF IsNull(resp.refresh) THEN EmptyToken ELSE Val(resp.refresh),
                        existing.savedAt))
extractRefreshedSession(resp, existing, t) ==
    LET userId == IF IsNull(resp.userId) THEN existing.userId ELSE Val(resp.userId)
        refreshToken ==
            IF IsNull(resp.refresh) THEN existing.refreshToken ELSE Val(resp.refresh)
    IN  IF userId = "" \/ IsNull(resp.access) \/ IsNull(resp.chat)
        THEN Null
        ELSE IF Val(resp.access).id = 0 \/ Val(resp.chat).id = 0
        THEN Null
        ELSE Some(MkSession(userId, Val(resp.access), Val(resp.chat),
                            IF refreshToken.id # 0 THEN refreshToken
                            ELSE existing.refreshToken, t))

MkResult(ok, s, e) == [success |-> ok, session |-> s, error |-> e]

\* auth.ts 228-258: what refreshSession makes of the response to its request.
refreshResult(resp, existing, t) ==
    IF resp.status # 200
    THEN IF resp.status = 401
         THEN MkResult(FALSE, Null, <<"Session", "expired,", "please", "login", "again">>)
         ELSE MkResult(FALSE, Null, <<"HTTP", "500">>)
    ELSE IF resp.body = "text"
    THEN MkResult(FALSE, Null, <<"Unexpected", "response">>)
    ELSE IF resp.isSuccess = "false"
    THEN MkResult(FALSE, Null, <<"Token", "refresh", "failed">>)
    ELSE LET s == extractRefreshedSession(resp, existing, t)
         IN  IF IsNull(s)
             THEN MkResult(FALSE, Null, <<"Could", "not", "extract", "session">>)
             ELSE MkResult(TRUE, s, <<>>)

(***************************************************************************)
(* State.                                                                  *)
(***************************************************************************)
VARIABLES
    now,        \* Date.now(), in ms
    ticks,      \* clock advances so far
    stored,     \* the session file: Null or Some(session)
    device,     \* the device file: n > 0 when it holds the n-th identity created,
                \* -n when it is absent after n identities were created
    minted,     \* tokens the platform has minted
    requests,   \* refresh requests the platform has received
    war         \* war[p]: the withAutoRefresh invocation p

authVars == <<now, ticks, stored, device, minted, requests, war>>

VARIABLES
    inst,       \* inst[i]: the ElymentsXmppClient instance i
    cur,        \* ElymentsClient.xmpp: 0 (null) or an instance
    tr,         \* tr[t]: the transport t (an xmpp.js client)
    con,        \* con[c]: the connect() call c
    onl,        \* onl[t]: the run of the "online" handler for transport t
    dis,        \* dis[i]: the disconnect() call in progress on instance i
    snd,        \* snd[k]: the sendMessageElyments call k
    timers,     \* the armed interval timers
    pings,      \* liveness probes: how many were written, how many failed to send
    ev,         \* ev[i]: the events instance i has emitted, in order
    heard       \* the events ElymentsClient has re-emitted

connVars == <<inst, cur, tr, con, onl, dis, snd, timers, pings, ev, heard>>

VARIABLES
    cfg,        \* the channel configuration the monitor was started with
    store,      \* the pairing store: approved ids and pending requests
    hm          \* hm[m]: the handleMessage run m

gateVars == <<cfg, store, hm>>

VARIABLES
    otp         \* the verifyOtp call: its position and its result

VARIABLES
    outbox,     \* the stanzas sendText, sendMedia, ... have built, in order
    dec,        \* dec[m]: the handleStanza run for inbound stanza m
    disp,       \* disp[m]: what handleMessage run m did after admitting
    mon,        \* the monitorElymentsProvider run and the shared client
    dir,        \* the recipient index and the resolveRecipient call
    ext         \* the extractSession / extractRefreshedSession call

wireVars == <<outbox, dec>>
restVars == <<outbox, dec, disp, mon, dir, ext>>

vars == <<now, ticks, stored, device, minted, requests, war,
          inst, cur, tr, con, onl, dis, snd, timers, pings, ev, heard,
          cfg, store, hm, otp, outbox, dec, disp, mon, dir, ext>>

\* The state outside each component.
notAuth == <<connVars, gateVars, otp, restVars>>
notConn == <<authVars, gateVars, otp, restVars>>
notGate == <<authVars, connVars, otp, restVars>>
notLogin == <<now, ticks, requests, war, connVars, gateVars, restVars>>
notWire == <<authVars, connVars, gateVars, otp, disp, mon, dir, ext>>
notDisp == <<authVars, connVars, gateVars, otp, outbox, dec, mon, dir, ext>>
notMon == <<authVars, gateVars, otp, outbox, dec, disp, dir, ext>>
notDir == <<authVars, connVars, gateVars, otp, outbox, dec, disp, mon, ext>>
notExt == <<authVars, connVars, gateVars, otp, outbox, dec, disp, mon, dir>>

Procs == 1 .. NumCalls
\* Every connect() call constructs at most one instance and one transport.
Connects == 1 .. MaxReconnects
Insts == Connects
Trans == Connects
Sends == 1 .. MaxSends

\* The records of the streaming client before anything has happened.
InstNew == [made |-> FALSE, xmpp |-> 0, connected |-> FALSE, pingInterval |-> 0]
TrNew == [owner |-> 0, status |-> "none"]
ConNew == [pc |-> "idle", via |-> "none", inst |-> 0, t |-> 0, busy |-> FALSE,
           noop |-> FALSE, tore |-> FALSE]
OnlNew == [pc |-> "idle", sent |-> <<>>, failed |-> FALSE]
DisNew == [pc |-> "idle", t |-> 0]
SndNew == [pc |-> "idle", kind |-> "none", inst |-> 0, result |-> "none",
           wroteOffline |-> FALSE, lostOnline |-> FALSE]

Event(name, reason) == [name |-> name, reason |-> reason]

\* accounts.ts 314-349: the stanzas of initializeSession, in order.
InitStanzas == <<"session", "presence", "carbons", "roster">>

ConnIdle ==
    /\ inst = [i \in Insts |-> InstNew]
    /\ cur = 0
    /\ tr = [t \in Trans |-> TrNew]
    /\ con = [c \in Connects |-> ConNew]
    /\ onl = [t \in Trans |-> OnlNew]
    /\ dis = [i \in Insts |-> DisNew]
    /\ snd = [k \in Sends |-> SndNew]
    /\ timers = {}
    /\ pings = [written |-> 0, failed |-> 0]
    /\ ev = [i \in Insts |-> <<>>]
    /\ heard = {}

(***************************************************************************)
(* The policy gate's data (monitor.ts 70-107, accounts.ts 530-538).  A     *)
(* string is a sequence of tokens: "AL" and "R" are the upper-case forms   *)
(* of "al" and "r", " " is white space.                                    *)
(***************************************************************************)
Msgs == 1 .. MaxMsgs

LowerTok(c) == IF c = "AL" THEN "al" ELSE IF c = "R" THEN "r" ELSE c
toLowerCase(s) == [n \in DOMAIN s |-> LowerTok(s[n])]

RECURSIVE trimStart(_)
trimStart(s) == IF s # <<>> /\ Head(s) = " " THEN trimStart(Tail(s)) ELSE s
RECURSIVE trimEnd(_)
trimEnd(s) ==
    IF s # <<>> /\ s[Len(s)] = " " THEN trimEnd(SubSeq(s, 1, Len(s) - 1)) ELSE s
trim(s) == trimEnd(trimStart(s))

\* s.split(sep)[0]
SplitHead(s, sep) ==
    IF Includes(s, sep)
    THEN SubSeq(s, 1, (CHOOSE n \in DOMAIN s :
                          s[n] = sep /\ \A k \in 1 .. n - 1 : s[k] # sep) - 1)
    ELSE s

\* accounts.ts 530-532
isElymentsGroup(jid) ==
    \E n \in 1 .. Len(jid) - 1 : jid[n] = "@" /\ jid[n + 1] = "muclight.localhost"

\* accounts.ts 535-538
extractUserId(jid) ==
    LET first == SplitHead(jid, "@") IN IF first = <<>> THEN jid ELSE first

\* The addresses messages come from.
Alice == <<"al", "@", "localhost">>
AliceDevice == <<"AL", "@", "localhost", "/", "R">>
Bob == <<"bo", "@", "localhost", "/", "r">>
Self == <<"u1", "@", "localhost">>
Group1 == <<"g1", "@", "muclight.localhost">>
Group2 == <<"g2", "@", "muclight.localhost">>

\* monitor.ts 76-77: the monitor's start time; older events are skipped.
StartupMs == 1

MkEvent(from, body, name, ts) ==
    [from |-> from, body |-> body, senderName |-> name, timestamp |-> ts]
NoEvent == MkEvent(<<>>, <<>>, <<>>, 0)

DmEvents ==
    { MkEvent(f, <<"hi">>, <<>>, StartupMs) : f \in {Alice, AliceDevice, Bob, Self} }
    \cup { MkEvent(Alice, <<" ">>, <<>>, StartupMs),
           MkEvent(Alice, <<"hi">>, <<>>, StartupMs - 1),
           MkEvent(AliceDevice, <<"/cmd">>, <<>>, StartupMs) }

GroupEvents ==
    { MkEvent(Group1, b, <<"AL">>, StartupMs) :
        b \in {<<"hi">>, <<"@bot", "hi">>, <<"/cmd">>, <<"@bot", "/cmd">>} }
    \cup { MkEvent(Group2, <<"@bot", "hi">>, <<>>, StartupMs) }

\* A group's configuration entry; "unset" stands for an absent field.
MkGroup(key, enabled, users, autoReply, requireMention) ==
    [key |-> key, enabled |-> enabled, users |-> users, autoReply |-> autoReply,
     requireMention |-> requireMention]

\* monitor.ts 70-74: the configuration with every default.
CfgNew ==
    [dmEnabled |-> TRUE, dmPolicy |-> "pairing", allowFrom |-> {},
     groupPolicy |-> "allowlist", groups |-> {},
     allowTextCommands |-> TRUE, useAccessGroups |-> TRUE]

\* The static allow-lists the configurations carry: an id in upper case with
\* white space around it, the wildcard, a bare address and a full address.
StaticAllowLists ==
    { {}, {<<" ", "AL", " ">>}, {<<"*">>}, {Alice}, {AliceDevice} }

DmConfigs ==
    { [CfgNew EXCEPT !.dmPolicy = p, !.allowFrom = a] :
        p \in {"pairing", "allowlist"}, a \in StaticAllowLists }
    \cup { [CfgNew EXCEPT !.dmPolicy = "open", !.allowFrom = a] : a \in StaticAllowLists }
    \cup { [CfgNew EXCEPT !.dmPolicy = "disabled", !.allowFrom = a] :
              a \in {{}, {<<"*">>}} }
    \cup { [CfgNew EXCEPT !.dmEnabled = FALSE, !.dmPolicy = p, !.allowFrom = {<<"*">>}] :
              p \in {"pairing", "open"} }

GroupEntries ==
    { {},
      {MkGroup(Group1, "unset", {}, "unset", "unset")},
      {MkGroup(Group1, "false", {}, "unset", "unset")},
      {MkGroup(<<"g1">>, "unset", {<<"al">>}, "true", "unset")},
      {MkGroup(Group1, "unset", {<<"bo">>}, "unset", "false")},
      {MkGroup(Group1, "unset", {<<"*">>}, "unset", "false")},
      {MkGroup(Group1, "unset", {<<"bo">>, <<"g1">>}, "unset", "false")},
      {MkGroup(Group1, "false", {<<"bo">>}, "unset", "unset")},
      {MkGroup(Group1, "unset", {}, "false", "false")} }

GroupConfigs ==
    { [CfgNew EXCEPT !.groupPolicy = p, !.groups = g] :
        p \in {"open", "allowlist", "disabled"}, g \in GroupEntries }
    \cup { [CfgNew EXCEPT !.groups = {MkGroup(Group1, "unset", {}, "unset", "unset")},
                          !.allowFrom = {<<"g1">>}, !.useAccessGroups = u,
                          !.allowTextCommands = c] : u, c \in BOOLEAN }
    \cup { [CfgNew EXCEPT !.groups = {MkGroup(Group1, "false", {}, "unset", "unset")},
                          !.useAccessGroups = FALSE] }
    \cup { [CfgNew EXCEPT !.groups = {MkGroup(Group1, "unset", {}, "true", "unset")},
                          !.dmPolicy = "open", !.allowTextCommands = c] :
              c \in BOOLEAN }

HmNew ==
    [pc |-> "idle", event |-> NoEvent, storeRead |-> {}, created |-> FALSE,
     decision |-> "none", reason |-> "none", notice |-> "none"]

StoreNew == [allowFrom |-> {}, requests |-> {}]

GateIdle ==
    /\ cfg = CfgNew
    /\ store = StoreNew
    /\ hm = [m \in Msgs |-> HmNew]

\* An inbound stanza: its element name, from address, body child's text, and
\* the archive result it wraps (Null, or the forwarded message's body and
\* the seconds of its delay stamp, NoStamp when there is no delay element).
NoStamp == 0 - 1
MkStanza(name, from, body, mam) == [name |-> name, from |-> from, body |-> body, mam |-> mam]
NoStanza == MkStanza("none", <<>>, <<>>, Null)

DecNew == [pc |-> "idle", stanza |-> NoStanza, at |-> 0, event |-> NoEvent, echo |-> 0]
DispNew == [pc |-> "idle", of |-> 0, handed |-> 0, replies |-> 0]
MonNew == [pc |-> "idle", runs |-> 0, client |-> 0, made |-> 0, handlers |-> 0,
           aborted |-> FALSE, did |-> <<>>]
DirNew == [index |-> {}, pc |-> "idle", calls |-> 0, query |-> <<>>, seen |-> {},
           listings |-> <<>>, result |-> Null]

ExtNew == [pc |-> "idle", kind |-> "none", response |-> Null, result |-> Null]

WireIdle ==
    /\ outbox = <<>>
    /\ dec = [m \in Msgs |-> DecNew]

RestIdle ==
    /\ WireIdle
    /\ disp = [m \in Msgs |-> DispNew]
    /\ mon = MonNew
    /\ dir = DirNew
    /\ ext = ExtNew


\* accounts.ts 576-586 / 588-592
loadElymentsSession == stored

\* accounts.ts 588-592: one writeFileSync of the whole record; the value the
\* session file holds after it.
MutSaveElymentsSession(session) ==
    IF IsNull(stored) THEN Some(session)
    ELSE Some([session EXCEPT !.chatAccessToken = Val(stored).chatAccessToken])
saveElymentsSession(session) == Some(session)

\* accounts.ts 635-648: the device identity is created on first need, with
\* fresh random deviceId and deviceToken and the resource clawdbot-<now>.
getOrCreateDevice == IF device <= 0 THEN 1 - device ELSE device

\* One finished refreshSession call: whether its request was sent, the
\* response to it, and how the call ended ("ok", "fail" or "throw").
Refreshed(sent, resp, ended, error) ==
    [sent |-> sent, resp |-> resp, ended |-> ended, error |-> error]

NoRefreshToken == <<"No", "refresh", "token", "available">>
EndOf(resp, r) ==
    IF resp \in ThrowingResponses
    THEN Refreshed(TRUE, Some(resp), "throw", refreshThrows(resp))
    ELSE Refreshed(TRUE, Some(resp), IF r.success THEN "ok" ELSE "fail", r.error)

OtpIdle == [pc |-> "idle", result |-> Null]

WarIdle ==
    [pc |-> "idle", sess |-> Null, cur |-> Null, calls |-> <<>>,
     preRefresh |-> 0, postRefresh |-> 0, refreshed |-> Null,
     postRes |-> Null, firstErr |-> NoErr, out |-> Null,
     loaded |-> Null, at |-> 0, gv |-> Null, gvReq |-> 0, refr |-> <<>>]

Return(w) == [w EXCEPT !.pc = "done", !.out = Some([kind |-> "return", err |-> NoErr])]
Throw(w, e) == [w EXCEPT !.pc = "done", !.out = Some([kind |-> "throw", err |-> e])]

InitAuth ==
    /\ now = 0
    /\ ticks = 0
    /\ stored \in {Null} \cup {Some(s) : s \in InitialSessions}
    /\ device \in {0, 1}
    /\ minted = 1
    /\ requests = 0
    /\ war = [p \in Procs |-> WarIdle]
    /\ otp = OtpIdle
    /\ RestIdle
    /\ ConnIdle
    /\ GateIdle

\* The clock advances.
Tick ==
    /\ ticks < MaxTicks
    /\ ticks' = ticks + 1
    /\ now' = now + TickMs
    /\ UNCHANGED <<stored, device, minted, requests, war>>
    /\ UNCHANGED notAuth

\* auth.ts 205-226: refreshSession up to its request.  Without a refresh token
\* it fails at once; otherwise the device identity is read (and created when
\* missing) and the request is sent.  TRUE when the request was sent.
RefreshCanSend == ~IsNull(stored) /\ Val(stored).refreshToken.id # 0

\* The responses a refresh request may get, and the errors fn may throw.  Where
\* two invocations run, both are drawn from a subset with one member of each
\* kind the code tells apart.
Pair == 1 .. NumConcurrent

Replies ==
    LET ok == IF minted < 1 + MaxMint THEN OkResponses(minted + 1) ELSE {}
    IN  IF DOMAIN war = Pair
        THEN {r \in BadResponses \cup ThrowingResponses : r.status \in {0, 401}}
             \cup {r \in ok : ~IsNull(r.userId)}
        ELSE BadResponses \cup ThrowingResponses \cup ok

FnErrors ==
    IF DOMAIN war = Pair THEN {<<"Failed", "401">>, <<"Failed", "500">>} ELSE ErrMsgs

\* auth.ts 271: does getValidSession refresh the session it loaded?
MutGvNeedsRefresh(session, t) == FALSE
GvNeedsRefresh(session, t) == isTokenExpiring(session.accessToken, t)

\* auth.ts 283-287: withAutoRefresh takes getValidSession's result r: it goes
\* on to the first call with a session, and throws the failure otherwise.
GotSession(w, r) ==
    IF r.success /\ ~IsNull(r.session)
    THEN [w EXCEPT !.pc = "call1", !.sess = r.session, !.gv = Some(r)]
    ELSE Throw([w EXCEPT !.gv = Some(r)], MkErr("session", r.error))

\* auth.ts 279-287 with getValidSession 262-276: the invocation starts.
WarStart(p) ==
    /\ war[p].pc = "idle"
    /\ LET w == [war[p] EXCEPT !.loaded = loadElymentsSession, !.at = now]
       IN  IF IsNull(loadElymentsSession)
           THEN /\ war' = [war EXCEPT ![p] =
                       GotSession(w, MkResult(FALSE, Null, <<"Not", "logged", "in">>))]
                /\ UNCHANGED <<device, requests>>
           ELSE IF GvNeedsRefresh(Val(stored), now)
           THEN IF RefreshCanSend
                THEN /\ war' = [war EXCEPT ![p] =
                            [w EXCEPT !.pc = "gvRefresh", !.cur = stored,
                                      !.preRefresh = @ + 1, !.gvReq = @ + 1]]
                     /\ device' = getOrCreateDevice
                     /\ requests' = requests + 1
                ELSE /\ war' = [war EXCEPT ![p] =
                            GotSession([w EXCEPT !.preRefresh = @ + 1,
                                    !.refr = Append(@, Refreshed(FALSE, Null, "fail",
                                                                 NoRefreshToken))],
                                MkResult(FALSE, Null, NoRefreshToken))]
                     /\ UNCHANGED <<device, requests>>
           ELSE /\ war' = [war EXCEPT ![p] = GotSession(w, MkResult(TRUE, stored, <<>>))]
                /\ UNCHANGED <<device, requests>>
    /\ UNCHANGED <<now, ticks, stored, minted>>
    /\ UNCHANGED notAuth

\* auth.ts 228-258 inside getValidSession (272): the response arrives.
GvRefreshDone(p) ==
    /\ war[p].pc = "gvRefresh"
    /\ \E resp \in Replies :
         LET r == refreshResult(resp, Val(war[p].cur), now)
         IN  IF resp \in ThrowingResponses
             THEN /\ war' = [war EXCEPT ![p] =
                        Throw([@ EXCEPT !.cur = Null, !.refr = Append(@, EndOf(resp, r))],
                              MkErr("refresh", refreshThrows(resp)))]
                  /\ UNCHANGED <<stored, minted>>
             ELSE /\ war' = [war EXCEPT ![p] =
                        GotSession([@ EXCEPT !.cur = Null,
                                             !.refr = Append(@, EndOf(resp, r))], r)]
                  /\ IF r.success
                     THEN stored' = saveElymentsSession(Val(r.session)) /\ minted' = minted + 1
                     ELSE UNCHANGED <<stored, minted>>
    /\ UNCHANGED <<now, ticks, device, requests>>
    /\ UNCHANGED notAuth

\* auth.ts 288-300: the first call of fn returns or throws; an
\* authorization-shaped error starts refreshSession (295).
Call1(p) ==
    /\ war[p].pc = "call1"
    /\ \/ /\ war' = [war EXCEPT ![p] =
                Return([@ EXCEPT !.calls = Append(@, [sess |-> war[p].sess, ok |-> TRUE,
                                                       err |-> NoErr])])]
          /\ UNCHANGED <<device, requests>>
       \/ \E m \in FnErrors :
            LET e == MkErr("fn1", m)
                w == [war[p] EXCEPT !.calls = Append(@, [sess |-> war[p].sess,
                                                          ok |-> FALSE, err |-> e]),
                                    !.firstErr = e]
            IN  IF ~AuthShaped(m)
                THEN /\ war' = [war EXCEPT ![p] = Throw(w, e)]
                     /\ UNCHANGED <<device, requests>>
                ELSE IF RefreshCanSend
                THEN /\ war' = [war EXCEPT ![p] =
                            [w EXCEPT !.pc = "retryRefresh", !.cur = stored,
                                      !.postRefresh = @ + 1]]
                     /\ device' = getOrCreateDevice
                     /\ requests' = requests + 1
                ELSE /\ war' = [war EXCEPT ![p] =
                            Throw([w EXCEPT !.postRefresh = @ + 1,
                                      !.refr = Append(@, Refreshed(FALSE, Null, "fail",
                                                                   NoRefreshToken))], e)]
                     /\ UNCHANGED <<device, requests>>
    /\ UNCHANGED <<now, ticks, stored, minted>>
    /\ UNCHANGED notAuth

\* auth.ts 296-300: what withAutoRefresh does with the result of the refresh it
\* started after the failure e of the first call.
MutAfterRefresh(w, r, e) ==
    IF r.success /\ ~IsNull(r.session)
    THEN [w EXCEPT !.pc = "call2", !.cur = Null, !.refreshed = r.session]
    ELSE Throw([w EXCEPT !.cur = Null], MkErr("session", r.error))
AfterRefresh(w, r, e) ==
    IF r.success /\ ~IsNull(r.session)
    THEN [w EXCEPT !.pc = "call2", !.cur = Null, !.refreshed = r.session]
    ELSE Throw([w EXCEPT !.cur = Null], e)

\* auth.ts 228-258 inside withAutoRefresh (295): the response arrives.
RetryRefreshDone(p) ==
    /\ war[p].pc = "retryRefresh"
    /\ \E resp \in Replies :
         LET r == refreshResult(resp, Val(war[p].cur), now)
         IN  IF resp \in ThrowingResponses
             THEN /\ war' = [war EXCEPT ![p] =
                        Throw([@ EXCEPT !.cur = Null, !.refr = Append(@, EndOf(resp, r))],
                              MkErr("refresh", refreshThrows(resp)))]
                  /\ UNCHANGED <<stored, minted>>
             ELSE /\ war' = [war EXCEPT ![p] =
                        [AfterRefresh(@, r, war[p].firstErr) EXCEPT
                            !.postRes = Some(r), !.refr = Append(@, EndOf(resp, r))]]
                  /\ IF r.success
                     THEN stored' = saveElymentsSession(Val(r.session)) /\ minted' = minted + 1
                     ELSE UNCHANGED <<stored, minted>>
    /\ UNCHANGED <<now, ticks, device, requests>>
    /\ UNCHANGED notAuth

\* auth.ts 297: the session the retry is made with.
MutRetrySession(w) == w.sess
RetrySession(w) == w.refreshed

\* auth.ts 297: the second call of fn; its result is the invocation's result.
Call2(p) ==
    /\ war[p].pc = "call2"
    /\ \/ war' = [war EXCEPT ![p] =
                Return([@ EXCEPT !.calls = Append(@, [sess |-> RetrySession(war[p]),
                                                       ok |-> TRUE, err |-> NoErr])])]
       \/ \E m \in FnErrors :
            LET e == MkErr("fn2", m)
            IN  war' = [war EXCEPT ![p] =
                    Throw([@ EXCEPT !.calls = Append(@, [sess |-> RetrySession(war[p]),
                                                          ok |-> FALSE, err |-> e])], e)]
    /\ UNCHANGED <<now, ticks, stored, device, minted, requests>>
    /\ UNCHANGED notAuth

NextAuth ==
    \/ Tick
    \/ \E p \in Procs : WarStart(p)
    \/ \E p \in Procs : GvRefreshDone(p)
    \/ \E p \in Procs : Call1(p)
    \/ \E p \in Procs : RetryRefreshDone(p)
    \/ \E p \in Procs : Call2(p)

SpecAuth == InitAuth /\ [][NextAuth]_vars

(***************************************************************************)
(* Two withAutoRefresh invocations on one persisted session (auth.ts       *)
(* 279-302): each await is a point where the other invocation may run.     *)
(***************************************************************************)
InitPair ==
    /\ now = 0
    /\ ticks = 0
    /\ stored \in {Some(MkSession("u1", Tok(1, e), Tok(1, NoExp), Tok(1, NoExp), 0)) :
                     e \in {60, 90}}
    /\ device = 1
    /\ minted = 1
    /\ requests = 0
    /\ war = [p \in Pair |-> WarIdle]
    /\ otp = OtpIdle
    /\ RestIdle
    /\ ConnIdle
    /\ GateIdle

NextPair ==
    \/ Tick
    \/ \E p \in Pair : WarStart(p)
    \/ \E p \in Pair : GvRefreshDone(p)
    \/ \E p \in Pair : Call1(p)
    \/ \E p \in Pair : RetryRefreshDone(p)
    \/ \E p \in Pair : Call2(p)

SpecPair == InitPair /\ [][NextPair]_vars

(***************************************************************************)
(* Login: verifyOtp (auth.ts 120-174), and the session file as it may be   *)
(* found: JSON.parse's value is taken for a session as it is (accounts.ts  *)
(* 576-586), so a record a token is missing from is loaded like any other. *)
(***************************************************************************)
IncompleteSessions ==
    { MkSession("u1", EmptyToken, Tok(1, NoExp), Tok(1, NoExp), 0),
      MkSession("u1", Tok(1, NoExp), EmptyToken, Tok(1, NoExp), 0),
      MkSession("u1", Tok(1, 60), EmptyToken, Tok(1, NoExp), 0) }

\* Session records whose access token has a payload that does not decode, or
\* an exp claim of 0.
OddSessions ==
    { MkSession("u1", Tok(1, e), Tok(1, NoExp), Tok(1, NoExp), 0) : e \in {Undecodable, 0} }

InitLogin ==
    /\ now = 0
    /\ ticks = 0
    /\ stored \in {Null} \cup {Some(s) : s \in InitialSessions \cup IncompleteSessions
                                                 \cup OddSessions}
    /\ device \in {0, 1}
    /\ minted = 1
    /\ requests = 0
    /\ war = [p \in Procs |-> WarIdle]
    /\ otp = OtpIdle
    /\ RestIdle
    /\ ConnIdle
    /\ GateIdle

\* auth.ts 92-117
extractSession(resp, t) ==
    IF IsNull(resp.userId) \/ IsNull(resp.access) \/ IsNull(resp.chat)
    THEN Null
    ELSE IF Val(resp.userId) = "" \/ Val(resp.access).id = 0 \/ Val(resp.chat).id = 0
    THEN Null
    ELSE Some(MkSession(Val(resp.userId), Val(resp.access), Val(resp.chat),
                        IF IsNull(resp.refresh) THEN EmptyToken ELSE Val(resp.refresh),
                        t))

\* auth.ts 145-173: what verifyOtp makes of the response to its request.
verifyResult(resp, t) ==
    IF resp.status # 200 THEN MkResult(FALSE, Null, <<"HTTP", "500">>)
    ELSE IF resp.body = "text" THEN MkResult(FALSE, Null, <<"Unexpected", "response">>)
    ELSE IF resp.isSuccess = "false"
    THEN MkResult(FALSE, Null, <<"OTP", "verification", "failed">>)
    ELSE LET s == extractSession(resp, t)
         IN  IF IsNull(s)
             THEN MkResult(FALSE, Null, <<"Could", "not", "extract", "session">>)
             ELSE MkResult(TRUE, s, <<>>)

\* auth.ts 120-143: verifyOtp reads the device identity (created when
\* missing) and sends its request.
VerifyOtpStart ==
    /\ otp.pc = "idle"
    /\ device' = getOrCreateDevice
    /\ otp' = [otp EXCEPT !.pc = "sent"]
    /\ UNCHANGED <<stored, minted>>
    /\ UNCHANGED notLogin

\* auth.ts 145-173: the response arrives; a session that could be extracted
\* is saved.
VerifyOtpDone ==
    /\ otp.pc = "sent"
    /\ \E resp \in BadResponses \cup ThrowingResponses \cup
                   (IF minted < 1 + MaxMint THEN OkResponses(minted + 1) ELSE {}) :
         LET r == verifyResult(resp, now)
         IN  IF resp \in ThrowingResponses
             THEN /\ otp' = [pc |-> "threw", result |-> Null]
                  /\ UNCHANGED <<stored, minted>>
             ELSE /\ otp' = [pc |-> "done", result |-> Some(r)]
                  /\ IF r.success
                     THEN stored' = saveElymentsSession(Val(r.session)) /\ minted' = minted + 1
                     ELSE UNCHANGED <<stored, minted>>
    /\ UNCHANGED device
    /\ UNCHANGED notLogin

\* part_001 302-305, accounts.ts 726-735: logoutAccount clears the
\* credentials: the session file, the device file and the profile file are
\* deleted.  The next verifyOtp is a new login.
clearElymentsCredentials ==
    [stored |-> Null, device |-> IF device > 0 THEN 0 - device ELSE device]

Logout ==
    /\ device < MaxDevices
    /\ otp.pc # "sent"
    /\ \A p \in Procs : war[p].pc \in {"idle", "done"}
    /\ stored' = clearElymentsCredentials.stored
    /\ device' = clearElymentsCredentials.device
    /\ otp' = OtpIdle
    /\ UNCHANGED minted
    /\ UNCHANGED notLogin

NextDevice ==
    \/ NextAuth
    \/ VerifyOtpStart
    \/ VerifyOtpDone
    \/ Logout

SpecDevice == InitLogin /\ [][NextDevice]_vars

NextLogin ==
    \/ NextAuth
    \/ VerifyOtpStart
    \/ VerifyOtpDone

SpecLogin == InitLogin /\ [][NextLogin]_vars

(***************************************************************************)
(* The streaming client: ElymentsXmppClient (accounts.ts 143-527) and its  *)
(* owner ElymentsClient (client.ts 34-125).  The transport is the xmpp.js  *)
(* client of accounts.ts 112-119: after start() it reports "online" at     *)
(* most once, then "offline" at most once, and nothing after stop() has    *)
(* settled; send() may reject.                                             *)
(***************************************************************************)
\* The session manager's state while the streaming client is examined: a
\* persisted session whose access token is not expiring.
AuthAtRest ==
    /\ now = 0
    /\ ticks = 0
    /\ stored = Some(MkSession("u1", Tok(1, NoExp), Tok(1, NoExp), Tok(1, NoExp), 0))
    /\ device = 1
    /\ minted = 1
    /\ requests = 0
    /\ war = [p \in Procs |-> WarIdle]
    /\ otp = OtpIdle
    /\ RestIdle

InitConn == AuthAtRest /\ ConnIdle /\ GateIdle

\* client.ts 62-68: ElymentsClient re-emits the events of every
\* ElymentsXmppClient it has constructed, except "connecting"; stale tells
\* whether the instance was no longer the one ElymentsClient holds.
Forwarded(i, events) ==
    { [name |-> events[n].name, from |-> i, stale |-> cur # i] :
        n \in {m \in DOMAIN events : events[m].name # "connecting"} }

\* Is a connect() call on instance i between its guard and the end of start()?
Connecting(i) ==
    \/ \E c \in Connects : con[c].inst = i /\ con[c].pc \in {"import", "starting"}
    \/ inst[i].xmpp # 0 /\ tr[inst[i].xmpp].status = "starting"

\* accounts.ts 376-381
stopPing(r) == [r EXCEPT !.pingInterval = 0]
ClearedBy(r) == IF r.pingInterval # 0 THEN {r.pingInterval} ELSE {}

\* accounts.ts 158-165: the guard of connect(); TRUE when the call returns at once.
MutConnectGuard(r) == r.connected
ConnectGuard(r) == r.connected \/ r.xmpp # 0

\* accounts.ts 157-165: connect() is called on the existing instance i.
XmppConnect(c, i) ==
    /\ con[c].pc = "idle"
    /\ \A d \in Connects : d < c => con[d].pc # "idle"
    /\ inst[i].made
    /\ LET busy == inst[i].connected \/ Connecting(i)
       IN  IF ConnectGuard(inst[i])
           THEN /\ con' = [con EXCEPT ![c] = [@ EXCEPT !.pc = "done", !.via = "xmpp",
                                !.inst = i, !.busy = busy, !.noop = TRUE]]
                /\ UNCHANGED <<ev, heard>>
           ELSE /\ con' = [con EXCEPT ![c] = [@ EXCEPT !.pc = "import", !.via = "xmpp",
                                !.inst = i, !.busy = busy]]
                /\ ev' = [ev EXCEPT ![i] = Append(@, Event("connecting", ""))]
                /\ UNCHANGED heard
    /\ UNCHANGED <<inst, cur, tr, onl, dis, snd, timers, pings>>
    /\ UNCHANGED notConn

\* client.ts 45-49: ElymentsClient.connect() is called; getValidSession is awaited.
ClientConnect(c) ==
    /\ con[c].pc = "idle"
    /\ \A d \in Connects : d < c => con[d].pc # "idle"
    /\ con' = [con EXCEPT ![c] =
            [@ EXCEPT !.pc = IF IsNull(loadElymentsSession) THEN "failed" ELSE "session",
                      !.via = "client",
                      !.busy = cur # 0 /\ (inst[cur].connected \/ Connecting(cur))]]
    /\ UNCHANGED <<inst, cur, tr, onl, dis, ev, heard, snd, timers, pings>>
    /\ UNCHANGED notConn

\* accounts.ts 515-519: disconnect() up to its await of xmpp.stop().
DisconnectSync(i) ==
    /\ timers' = timers \ ClearedBy(inst[i])
    /\ IF inst[i].xmpp # 0
       THEN /\ inst' = [inst EXCEPT ![i] = stopPing(@)]
            /\ dis' = [dis EXCEPT ![i] = [pc |-> "stopping", t |-> inst[i].xmpp]]
       ELSE /\ inst' = [inst EXCEPT ![i] = [stopPing(@) EXCEPT !.connected = FALSE]]
            /\ UNCHANGED dis

\* client.ts 54-70 with accounts.ts 157-165: connectXmpp disconnects the
\* instance it holds (without awaiting it), constructs a new one, forwards its
\* events and calls its connect(), which passes the guard and emits "connecting".
ClientConnectXmpp(c) ==
    /\ con[c].pc = "session"
    /\ \E j \in Insts :
        /\ ~inst[j].made
        /\ \A k \in Insts : k < j => inst[k].made
        /\ IF cur # 0
           THEN /\ timers' = timers \ ClearedBy(inst[cur])
                /\ IF inst[cur].xmpp # 0
                   THEN /\ inst' = [inst EXCEPT ![cur] = stopPing(@),
                                                ![j] = [@ EXCEPT !.made = TRUE]]
                        /\ dis' = [dis EXCEPT ![cur] =
                                [pc |-> "stopping", t |-> inst[cur].xmpp]]
                   ELSE /\ inst' = [inst EXCEPT
                                ![cur] = [stopPing(@) EXCEPT !.connected = FALSE],
                                ![j] = [@ EXCEPT !.made = TRUE]]
                        /\ UNCHANGED dis
           ELSE /\ inst' = [inst EXCEPT ![j] = [@ EXCEPT !.made = TRUE]]
                /\ UNCHANGED <<timers, dis>>
        /\ cur' = j
        /\ con' = [con EXCEPT ![c] = [@ EXCEPT !.pc = "import", !.inst = j,
                                                !.tore = cur # 0]]
        /\ ev' = [ev EXCEPT ![j] = Append(@, Event("connecting", ""))]
    /\ UNCHANGED <<tr, onl, snd, pings, heard>>
    /\ UNCHANGED notConn

\* accounts.ts 169-212: after the import, connect() creates the transport,
\* registers its handlers and calls start().
XmppConnectCreate(c) ==
    /\ con[c].pc = "import"
    /\ \E t \in Trans :
        /\ tr[t].status = "none"
        /\ \A u \in Trans : u < t => tr[u].status # "none"
        /\ tr' = [tr EXCEPT ![t] = [owner |-> con[c].inst, status |-> "starting"]]
        /\ inst' = [inst EXCEPT ![con[c].inst] = [@ EXCEPT !.xmpp = t]]
        /\ con' = [con EXCEPT ![c] = [@ EXCEPT !.pc = "starting", !.t = t]]
    /\ UNCHANGED <<cur, onl, dis, snd, timers, pings, ev, heard>>
    /\ UNCHANGED notConn

\* The calls of connect() waiting for start() of transport t settle.
Settle(t, how) ==
    [c \in Connects |->
        IF con[c].pc = "starting" /\ con[c].t = t
        THEN [con[c] EXCEPT !.pc = how] ELSE con[c]]

Emit(i, events) ==
    /\ ev' = [ev EXCEPT ![i] = @ \o events]
    /\ heard' = heard \cup Forwarded(i, events)

\* accounts.ts 194-200: the transport reports "online"; the handler sets
\* connected, emits "connected" and "online" and calls initializeSession, which
\* returns at once without a transport (310) and else awaits its import.
OnOnline(t) ==
    /\ tr[t].status = "starting"
    /\ LET i == tr[t].owner
       IN  /\ tr' = [tr EXCEPT ![t] = [@ EXCEPT !.status = "online"]]
           /\ inst' = [inst EXCEPT ![i] = [@ EXCEPT !.connected = TRUE]]
           /\ Emit(i, <<Event("connected", ""), Event("online", "")>>)
           /\ onl' = [onl EXCEPT ![t] =
                  [@ EXCEPT !.pc = IF inst[i].xmpp = 0 THEN "afterInit" ELSE "send1",
                            !.failed = inst[i].xmpp = 0]]
           /\ con' = Settle(t, "done")
    /\ UNCHANGED <<cur, dis, snd, timers, pings>>
    /\ UNCHANGED notConn

\* accounts.ts 212-216: the handshake fails and start() rejects.
OnStartFailed(t) ==
    /\ tr[t].status = "starting"
    /\ tr' = [tr EXCEPT ![t] = [@ EXCEPT !.status = "failed"]]
    /\ con' = Settle(t, "failed")
    /\ UNCHANGED <<inst, cur, onl, dis, snd, timers, pings, ev, heard>>
    /\ UNCHANGED notConn

\* accounts.ts 200-202, 321-349: where initializeSession goes after the send
\* at step n: on to the next stanza, or out (its rejection is caught and logged).
MutAfterSend(n, ok) == IF n = 4 THEN "afterInit" ELSE <<"send2", "send3", "send4">>[n]
AfterSend(n, ok) ==
    IF ok /\ n < 4 THEN <<"send2", "send3", "send4">>[n] ELSE "afterInit"

StepOf(pc) == CASE pc = "send1" -> 1 [] pc = "send2" -> 2 [] pc = "send3" -> 3
                [] pc = "send4" -> 4 [] OTHER -> 0

\* accounts.ts 321, 330, 340, 349: initializeSession sends its next stanza on
\* the instance's current transport; without one the call throws.
InitSend(t) ==
    /\ StepOf(onl[t].pc) > 0
    /\ LET i == tr[t].owner
           n == StepOf(onl[t].pc)
       IN  \E ok \in BOOLEAN :
             /\ ok => inst[i].xmpp # 0 /\ tr[inst[i].xmpp].status = "online"
             /\ onl' = [onl EXCEPT ![t] =
                    [@ EXCEPT !.pc = AfterSend(n, ok),
                              !.sent = IF ok THEN Append(@, InitStanzas[n]) ELSE @,
                              !.failed = @ \/ ~ok]]
    /\ UNCHANGED <<inst, cur, tr, con, dis, snd, timers, pings, ev, heard>>
    /\ UNCHANGED notConn

\* accounts.ts 354-360: startPing up to its import; an interval the instance
\* holds is cleared (the field keeps its value).
StartPing(t) ==
    /\ onl[t].pc = "afterInit"
    /\ timers' = timers \ ClearedBy(inst[tr[t].owner])
    /\ onl' = [onl EXCEPT ![t] = [@ EXCEPT !.pc = "arm"]]
    /\ UNCHANGED <<inst, cur, tr, con, dis, snd, pings, ev, heard>>
    /\ UNCHANGED notConn

\* accounts.ts 363-373: startPing arms the interval.
ArmPing(t) ==
    /\ onl[t].pc = "arm"
    /\ timers' = timers \cup {t}
    /\ inst' = [inst EXCEPT ![tr[t].owner] = [@ EXCEPT !.pingInterval = t]]
    /\ onl' = [onl EXCEPT ![t] = [@ EXCEPT !.pc = "done"]]
    /\ UNCHANGED <<cur, tr, con, dis, snd, pings, ev, heard>>
    /\ UNCHANGED notConn

\* accounts.ts 370-372: the catch around the probe's send: what a probe that
\* failed to send does to the instance.
MutProbeFailed(r) == [r EXCEPT !.connected = FALSE]
ProbeFailed(r) == r

\* accounts.ts 363-372: the interval fires; a probe is sent when the instance
\* is connected and holds a transport; send() resolves (ok) or rejects.
PingTick(id, ok) ==
    /\ id \in timers
    /\ LET i == tr[id].owner
           r == inst[i]
       IN  IF r.connected /\ r.xmpp # 0 /\ pings.written + pings.failed < MaxPings
           THEN IF ok
                THEN /\ pings' = [pings EXCEPT !.written = @ + 1]
                     /\ UNCHANGED inst
                ELSE /\ pings' = [pings EXCEPT !.failed = @ + 1]
                     /\ inst' = [inst EXCEPT ![i] = ProbeFailed(@)]
           ELSE UNCHANGED <<pings, inst>>
    /\ UNCHANGED <<cur, tr, con, onl, dis, snd, timers, ev, heard>>
    /\ UNCHANGED notConn

\* accounts.ts 187-192: what the "offline" handler does to the instance.
MutOfflineHandler(r) == [r EXCEPT !.connected = FALSE]
offlineHandler(r) == stopPing([r EXCEPT !.connected = FALSE])

\* accounts.ts 187-192: the transport closes and reports "offline".
OnOffline(t) ==
    /\ tr[t].status = "online"
    /\ LET i == tr[t].owner
       IN  /\ tr' = [tr EXCEPT ![t] = [@ EXCEPT !.status = "offline"]]
           /\ inst' = [inst EXCEPT ![i] = offlineHandler(@)]
           /\ timers' = timers \ ClearedBy(inst[i])
           /\ Emit(i, <<Event("offline", ""), Event("disconnected", "offline")>>)
    /\ UNCHANGED <<cur, con, onl, dis, snd, pings>>
    /\ UNCHANGED notConn

\* accounts.ts 515-519: disconnect() is called on instance i.
XmppDisconnect(i) ==
    /\ inst[i].made
    /\ dis[i].pc = "idle"
    /\ DisconnectSync(i)
    /\ UNCHANGED <<cur, tr, con, onl, snd, pings, ev, heard>>
    /\ UNCHANGED notConn

\* accounts.ts 519-525: xmpp.stop() settles (a rejection is ignored); the
\* instance drops its transport, which reports nothing from then on.
DisconnectDone(i) ==
    /\ dis[i].pc = "stopping"
    /\ inst' = [inst EXCEPT ![i] = [@ EXCEPT !.xmpp = 0, !.connected = FALSE]]
    /\ tr' = [tr EXCEPT ![dis[i].t] = [@ EXCEPT !.status = "stopped"]]
    /\ dis' = [dis EXCEPT ![i] = DisNew]
    /\ UNCHANGED <<cur, con, onl, snd, timers, pings, ev, heard>>
    /\ UNCHANGED notConn

\* accounts.ts 389 / 431 and client.ts 88 / 104: the connectivity checks.
NotConnected(r) == r.xmpp = 0 \/ ~r.connected

\* send.ts 25-42, client.ts 87-94, accounts.ts 388-393: sendMessageElyments
\* for a text: the three connectivity checks run in one step, then sendText
\* awaits its imports.  With a mediaUrl the upload is awaited after the first.
SendMessage(k, kind) ==
    /\ snd[k].pc = "idle"
    /\ IF cur = 0 \/ ~inst[cur].connected
       THEN snd' = [snd EXCEPT ![k] = [@ EXCEPT !.pc = "done", !.kind = kind,
                                                !.result = "NotConnected"]]
       ELSE IF kind = "media"
       THEN snd' = [snd EXCEPT ![k] = [@ EXCEPT !.pc = "upload", !.kind = kind]]
       ELSE IF NotConnected(inst[cur])
       THEN snd' = [snd EXCEPT ![k] = [@ EXCEPT !.pc = "done", !.kind = kind,
                                                !.result = "NotConnected"]]
       ELSE snd' = [snd EXCEPT ![k] = [@ EXCEPT !.pc = "import", !.kind = kind,
                                                !.inst = cur]]
    /\ UNCHANGED <<inst, cur, tr, con, onl, dis, timers, pings, ev, heard>>
    /\ UNCHANGED notConn

\* send.ts 38-39, client.ts 104-110, accounts.ts 431-435: after the upload,
\* sendMedia checks the connection again and awaits its import.
SendAfterUpload(k) ==
    /\ snd[k].pc = "upload"
    /\ IF cur = 0 \/ ~inst[cur].connected \/ NotConnected(inst[cur])
       THEN snd' = [snd EXCEPT ![k] = [@ EXCEPT !.pc = "done", !.result = "NotConnected"]]
       ELSE snd' = [snd EXCEPT ![k] = [@ EXCEPT !.pc = "import", !.inst = cur]]
    /\ UNCHANGED <<inst, cur, tr, con, onl, dis, timers, pings, ev, heard>>
    /\ UNCHANGED notConn

\* accounts.ts 419 / 467: the stanza is handed to the instance's transport.
\* Without a transport the call throws a TypeError; send() may reject.
SendWrite(k) ==
    /\ snd[k].pc = "import"
    /\ LET r == inst[snd[k].inst]
       IN  IF r.xmpp = 0
           THEN snd' = [snd EXCEPT ![k] = [@ EXCEPT !.pc = "done", !.result = "TypeError",
                                                    !.lostOnline = TRUE]]
           ELSE \E ok \in BOOLEAN :
                  /\ ok => tr[r.xmpp].status = "online"
                  /\ snd' = [snd EXCEPT ![k] =
                        [@ EXCEPT !.pc = "done",
                                  !.result = IF ok THEN "sent" ELSE "TransportError",
                                  !.wroteOffline = ~r.connected,
                                  !.lostOnline = ~r.connected]]
    /\ UNCHANGED <<inst, cur, tr, con, onl, dis, timers, pings, ev, heard>>
    /\ UNCHANGED notConn

\* One connection through ElymentsClient, with sends and keep-alive.
NextConn ==
    \/ \E c \in 1 .. MaxConnects : ClientConnect(c)
    \/ \E c \in 1 .. MaxConnects : ClientConnectXmpp(c)
    \/ \E c \in 1 .. MaxConnects : XmppConnectCreate(c)
    \/ \E t \in Trans : OnOnline(t)
    \/ \E t \in Trans : OnStartFailed(t)
    \/ \E t \in Trans : InitSend(t)
    \/ \E t \in Trans : StartPing(t)
    \/ \E t \in Trans : ArmPing(t)
    \/ \E id \in Trans, ok \in BOOLEAN : PingTick(id, ok)
    \/ \E t \in Trans : OnOffline(t)
    \/ \E i \in Insts : XmppDisconnect(i)
    \/ \E i \in Insts : DisconnectDone(i)
    \/ \E k \in Sends, kind \in {"text", "media"} : SendMessage(k, kind)
    \/ \E k \in Sends : SendAfterUpload(k)
    \/ \E k \in Sends : SendWrite(k)

SpecConn == InitConn /\ [][NextConn]_vars

\* Repeated connect() calls, on ElymentsClient and on an instance.
NextReconnect ==
    \/ \E c \in Connects, i \in Insts : XmppConnect(c, i)
    \/ \E c \in Connects : ClientConnect(c)
    \/ \E c \in Connects : ClientConnectXmpp(c)
    \/ \E c \in Connects : XmppConnectCreate(c)
    \/ \E t \in Trans : OnOnline(t)
    \/ \E t \in Trans : OnStartFailed(t)
    \/ \E t \in Trans : InitSend(t)
    \/ \E t \in Trans : StartPing(t)
    \/ \E t \in Trans : ArmPing(t)
    \/ \E t \in Trans : OnOffline(t)
    \/ \E i \in Insts : XmppDisconnect(i)
    \/ \E i \in Insts : DisconnectDone(i)

SpecReconnect == InitConn /\ [][NextReconnect]_vars

(***************************************************************************)
(* The policy gate: handleMessage (monitor.ts 81-356).  The pairing store  *)
(* is the host's: upsertChannelPairingRequest gets or creates the request  *)
(* of a sender id in one step and tells whether it created it, the owner's *)
(* approval moves an id from the pending requests to the approved list,    *)
(* and readChannelAllowFromStore returns the approved list.                *)
(***************************************************************************)
Events == DmEvents \cup GroupEvents

\* The streaming client while the gate is examined: connected through one
\* ElymentsClient.connect() call, set-up sequence sent, keep-alive armed.
\* The connection variables after one connect() that went online.
Online ==
    [ inst |->
          [i \in Insts |->
                       IF i = 1 THEN [made |-> TRUE, xmpp |-> 1, connected |-> TRUE,
                                      pingInterval |-> 1]
                       ELSE InstNew],
      cur |->
          1,
      tr |->
          [t \in Trans |->
                     IF t = 1 THEN [owner |-> 1, status |-> "online"] ELSE TrNew],
      con |->
          [c \in Connects |->
                      IF c = 1 THEN [ConNew EXCEPT !.pc = "done", !.via = "client",
                                                   !.inst = 1, !.t = 1]
                      ELSE ConNew],
      onl |->
          [t \in Trans |->
                      IF t = 1 THEN [pc |-> "done", sent |-> InitStanzas, failed |-> FALSE]
                      ELSE OnlNew],
      dis |->
          [i \in Insts |-> DisNew],
      snd |->
          [k \in Sends |-> SndNew],
      timers |->
          {1},
      pings |->
          [written |-> 0, failed |-> 0],
      ev |->
          [i \in Insts |->
                     IF i = 1 THEN <<Event("connecting", ""), Event("connected", ""),
                                     Event("online", "")>>
                     ELSE <<>>],
      heard |->
          { [name |-> n, from |-> 1, stale |-> FALSE] : n \in {"connected", "online"} } ]

ConnOnline ==
    /\ inst = Online.inst
    /\ cur = Online.cur
    /\ tr = Online.tr
    /\ con = Online.con
    /\ onl = Online.onl
    /\ dis = Online.dis
    /\ snd = Online.snd
    /\ timers = Online.timers
    /\ pings = Online.pings
    /\ ev = Online.ev
    /\ heard = Online.heard

(***************************************************************************)
(* One ElymentsXmppClient after its first connect() call has settled       *)
(* (accounts.ts 157-217): the handshake failed and start() rejected, or    *)
(* the transport went online.  The calls followed are the later ones.      *)
(***************************************************************************)
HandshakeFailed ==
    [ inst |-> [i \in Insts |->
                  IF i = 1 THEN [InstNew EXCEPT !.made = TRUE, !.xmpp = 1] ELSE InstNew],
      tr |-> [t \in Trans |->
                  IF t = 1 THEN [owner |-> 1, status |-> "failed"] ELSE TrNew],
      onl |-> [t \in Trans |-> OnlNew],
      timers |-> {},
      ev |-> [i \in Insts |-> IF i = 1 THEN <<Event("connecting", "")>> ELSE <<>>],
      heard |-> {} ]

InitReuse ==
    /\ AuthAtRest
    /\ GateIdle
    /\ cur = 1
    /\ con = [c \in Connects |-> ConNew]
    /\ dis = [i \in Insts |-> DisNew]
    /\ snd = [k \in Sends |-> SndNew]
    /\ pings = [written |-> 0, failed |-> 0]
    /\ \E first \in {HandshakeFailed, Online} :
        /\ inst = first.inst
        /\ tr = first.tr
        /\ onl = first.onl
        /\ timers = first.timers
        /\ ev = first.ev
        /\ heard = first.heard

NextReuse ==
    \/ \E c \in Connects : XmppConnect(c, 1)
    \/ \E c \in Connects : XmppConnectCreate(c)
    \/ \E t \in Trans : OnOnline(t)
    \/ \E t \in Trans : OnStartFailed(t)
    \/ \E t \in Trans : InitSend(t)
    \/ \E t \in Trans : StartPing(t)
    \/ \E t \in Trans : ArmPing(t)
    \/ \E t \in Trans : OnOffline(t)
    \/ XmppDisconnect(1)
    \/ DisconnectDone(1)

SpecReuse == InitReuse /\ [][NextReuse]_vars

InitGate ==
    /\ AuthAtRest
    /\ ConnOnline
    /\ cfg \in DmConfigs \cup GroupConfigs
    /\ store \in {StoreNew, [StoreNew EXCEPT !.allowFrom = {<<"bo">>}]}
    /\ hm = [m \in Msgs |-> HmNew]

\* monitor.ts 91-92, 100
senderId(e) == extractUserId(e.from)
senderDisplayName(e) == IF e.senderName # <<>> THEN e.senderName ELSE senderId(e)
bodyText(e) == trim(e.body)

\* monitor.ts 105-107
MutEffectiveAllowFrom(storeAllowFrom) ==
    { trim(toLowerCase(entry)) : entry \in cfg.allowFrom }
effectiveAllowFrom(storeAllowFrom) ==
    { trim(toLowerCase(entry)) : entry \in cfg.allowFrom \cup storeAllowFrom }

\* monitor.ts 114-123
MutPermitted(e, allow) ==
    /\ allow # {}
    /\ \E entry \in allow :
        \/ entry = <<"*">>
        \/ entry = toLowerCase(senderId(e))
        \/ entry = toLowerCase(e.from)
permitted(e, allow) ==
    LET bareJid == toLowerCase(SplitHead(e.from, "/"))
    IN  /\ allow # {}
        /\ \E entry \in allow :
            \/ entry = <<"*">>
            \/ entry = toLowerCase(senderId(e))
            \/ entry = toLowerCase(e.from)
            \/ entry = bareJid

\* monitor.ts 110: direct messages are not handled at all.
MutDmOff == ~cfg.dmEnabled
DmOff == ~cfg.dmEnabled \/ cfg.dmPolicy = "disabled"

\* monitor.ts 112: the sender of a direct message is looked up in the lists.
MutDmChecked == TRUE
DmChecked == cfg.dmPolicy # "open"

\* monitor.ts 156, 182-184: groups[chatId] || groups[senderId]
GroupsAt(key) == {g \in cfg.groups : g.key = key}
groupConfig(e) ==
    IF GroupsAt(e.from) # {} THEN Some(CHOOSE g \in GroupsAt(e.from) : TRUE)
    ELSE IF GroupsAt(senderId(e)) # {}
    THEN Some(CHOOSE g \in GroupsAt(senderId(e)) : TRUE)
    ELSE Null

\* monitor.ts 167-173: is the sender on the group's user allow-list?
MutUserAllowed(e, users) == TRUE
userAllowed(e, users) ==
    \E entry \in users :
        \/ entry = <<"*">>
        \/ toLowerCase(entry) = toLowerCase(senderId(e))
        \/ toLowerCase(entry) = toLowerCase(senderDisplayName(e))

\* monitor.ts 154-179: the group allow-list; "ok" when the message passes.
MutGroupAllowlist(e) ==
    LET gc == groupConfig(e)
    IN  IF IsNull(gc) THEN "ok"
        ELSE IF Val(gc).enabled = "false" THEN "groupOff"
        ELSE "ok"
groupAllowlist(e) ==
    LET gc == groupConfig(e)
    IN  IF IsNull(gc) THEN "groupNotListed"
        ELSE IF Val(gc).enabled = "false" THEN "groupOff"
        ELSE IF Val(gc).users # {} /\ ~userAllowed(e, Val(gc).users) THEN "userBlocked"
        ELSE "ok"

\* monitor.ts 187: the mention patterns are those of "@bot".
wasMentioned(e) == Includes(bodyText(e), "@bot")

\* monitor.ts 188-194
shouldRequireMention(e) ==
    LET gc == groupConfig(e)
        autoReply == IF IsNull(gc) THEN "unset" ELSE Val(gc).autoReply
        requireMention == IF IsNull(gc) THEN "unset" ELSE Val(gc).requireMention
    IN  IF isElymentsGroup(e.from)
        THEN IF autoReply = "true" THEN FALSE
             ELSE IF autoReply = "false" THEN TRUE
             ELSE requireMention # "false"
        ELSE FALSE

\* The host's command detection: "/cmd" is the control command.
hasControlCommand(e) == Includes(bodyText(e), "/cmd")

\* monitor.ts 200-212; the host's resolveCommandAuthorizedFromAuthorizers
\* authorizes everyone when access groups are off and otherwise asks for a
\* configured authorizer that allows the sender.
commandAuthorized(e, allow) ==
    LET senderAllowedForCommands ==
            \E entry \in allow :
                \/ entry = <<"*">>
                \/ entry = toLowerCase(senderId(e))
                \/ entry = toLowerCase(e.from)
    IN  ~cfg.useAccessGroups \/ (allow # {} /\ senderAllowedForCommands)

\* monitor.ts 223-229: an authorized control command stands in for the mention.
MutShouldBypassMention(e, allow) == FALSE
shouldBypassMention(e, allow) ==
    /\ cfg.allowTextCommands /\ isElymentsGroup(e.from) /\ shouldRequireMention(e)
    /\ ~wasMentioned(e) /\ commandAuthorized(e, allow) /\ hasControlCommand(e)

\* monitor.ts 214-217: a control command in a group from a sender who may not
\* give commands is dropped.
MutDropUnauthorizedCommand(e, allow) ==
    /\ cfg.allowTextCommands /\ hasControlCommand(e) /\ ~commandAuthorized(e, allow)
    /\ ~wasMentioned(e)
dropUnauthorizedCommand(e, allow) ==
    /\ isElymentsGroup(e.from) /\ cfg.allowTextCommands /\ hasControlCommand(e)
    /\ ~commandAuthorized(e, allow)

\* monitor.ts 153-230: what handleMessage decides for an event that has passed
\* the direct-message policy: "admit", or the reason it drops the event.
MutAfterDmPolicy(e, allow) ==
    IF isElymentsGroup(e.from) /\ groupAllowlist(e) # "ok" THEN groupAllowlist(e)
    ELSE IF dropUnauthorizedCommand(e, allow) THEN "unauthorizedCommand"
    ELSE IF /\ isElymentsGroup(e.from) /\ shouldRequireMention(e) /\ ~wasMentioned(e)
            /\ ~shouldBypassMention(e, allow)
    THEN "noMention"
    ELSE "admit"
afterDmPolicy(e, allow) ==
    LET isGroup == isElymentsGroup(e.from)
    IN  IF isGroup /\ cfg.groupPolicy = "allowlist" /\ groupAllowlist(e) # "ok"
        THEN groupAllowlist(e)
        ELSE IF dropUnauthorizedCommand(e, allow)
        THEN "unauthorizedCommand"
        ELSE IF /\ isGroup /\ shouldRequireMention(e) /\ ~wasMentioned(e)
                /\ ~shouldBypassMention(e, allow)
        THEN "noMention"
        ELSE "admit"

Decided(h, reason) ==
    [h EXCEPT !.pc = "done", !.reason = reason,
              !.decision = IF reason = "admit" THEN "admit" ELSE "deny"]

\* The pairing store: the approved list, and the get-or-create of a sender's
\* pairing request with its answer whether the request was created.
readChannelAllowFromStore == store.allowFrom
upsertChannelPairingRequest(id) ==
    [created |-> id \notin store.requests,
     store |-> [store EXCEPT !.requests = @ \cup {id}]]

\* monitor.ts 84-86: startupGraceMs is 0.
MutTooOld(e) == FALSE
TooOld(e) == e.timestamp < StartupMs - 0

\* monitor.ts 81-104: an event arrives; events from before the start, from the
\* account itself, from a group under policy disabled or with a blank body are
\* dropped, any other waits for the pairing store's approved list.
Received(run, e) ==
    LET skip ==
          IF TooOld(e) THEN "old"
          ELSE IF senderId(e) = <<Val(stored).userId>> THEN "self"
          ELSE IF isElymentsGroup(e.from) /\ cfg.groupPolicy = "disabled"
          THEN "groupDisabled"
          ELSE IF bodyText(e) = <<>> THEN "blank"
          ELSE "none"
        h == [run EXCEPT !.event = e]
    IN  IF skip = "none" THEN [h EXCEPT !.pc = "readStore"] ELSE Decided(h, skip)

Receive(m, e) ==
    /\ hm[m].pc = "idle"
    /\ \A k \in Msgs : k < m => hm[k].pc # "idle"
    /\ hm' = [hm EXCEPT ![m] = Received(hm[m], e)]
    /\ UNCHANGED <<cfg, store>>
    /\ UNCHANGED notGate

\* monitor.ts 104-230: the approved list has been read (a failed read counts
\* as an empty list) and the policies are applied; only an unpermitted direct
\* message under policy pairing goes on, to the pairing store.
ReadStore(m) ==
    /\ hm[m].pc = "readStore"
    /\ \E storeAllowFrom \in {readChannelAllowFromStore, {}} :
        LET e == hm[m].event
            allow == effectiveAllowFrom(storeAllowFrom)
            h == [hm[m] EXCEPT !.storeRead = storeAllowFrom]
        IN  hm' = [hm EXCEPT ![m] =
                IF isElymentsGroup(e.from) THEN Decided(h, afterDmPolicy(e, allow))
                ELSE IF DmOff
                THEN Decided(h, "dmDisabled")
                ELSE IF ~DmChecked \/ permitted(e, allow)
                THEN Decided(h, afterDmPolicy(e, allow))
                ELSE IF cfg.dmPolicy = "pairing" THEN [h EXCEPT !.pc = "upsert"]
                ELSE Decided(h, "notPermitted")]
    /\ UNCHANGED <<cfg, store>>
    /\ UNCHANGED notGate

\* monitor.ts 133: the notice goes out for a request this call created.
MutNoticeDue(upserted) == TRUE
NoticeDue(upserted) == upserted.created

\* monitor.ts 127-133, 148: the pairing request of the sender id is fetched or
\* created; a repeat is dropped without a notice.
Upsert(m) ==
    /\ hm[m].pc = "upsert"
    /\ LET upserted == upsertChannelPairingRequest(senderId(hm[m].event))
       IN  /\ store' = upserted.store
           /\ hm' = [hm EXCEPT ![m] =
                    IF NoticeDue(upserted)
                    THEN [@ EXCEPT !.pc = "notify", !.created = upserted.created]
                    ELSE Decided(@, "pairingRepeat")]
    /\ UNCHANGED cfg
    /\ UNCHANGED notGate

\* monitor.ts 134-148, send.ts 25-44: the pairing notice is sent with
\* sendMessageElyments, which throws when the client is not connected or the
\* transport rejects the stanza; the failure is logged and the event dropped.
Notify(m) ==
    /\ hm[m].pc = "notify"
    /\ \E accepted \in BOOLEAN :
        LET sent == cur # 0 /\ ~NotConnected(inst[cur]) /\ accepted
        IN  hm' = [hm EXCEPT ![m] =
                [Decided(@, "pairing") EXCEPT
                    !.notice = IF sent THEN "sent" ELSE "failed"]]
    /\ UNCHANGED <<cfg, store>>
    /\ UNCHANGED notGate

\* The owner approves a pending pairing request.
Approve(id) ==
    /\ id \in store.requests
    /\ store' = [allowFrom |-> store.allowFrom \cup {id},
                 requests |-> store.requests \ {id}]
    /\ UNCHANGED <<cfg, hm>>
    /\ UNCHANGED notGate

NextGate ==
    \/ \E m \in Msgs, e \in Events : Receive(m, e)
    \/ \E m \in Msgs : ReadStore(m)
    \/ \E m \in Msgs : Upsert(m)
    \/ \E m \in Msgs : Notify(m)
    \/ \E e \in Events : Approve(senderId(e))
    \/ \E t \in Trans : OnOffline(t)

SpecGate == InitGate /\ [][NextGate]_vars

(***************************************************************************)
(* The wire format (accounts.ts 230-306, 388-497).  A string is a sequence *)
(* of tokens; in JSON text the tokens "{", "}", ":", "," and the quote     *)
(* are the syntax, and inside a string literal the quote and the backslash *)
(* are written as the escape tokens \" and \\.  The XML layer (the body    *)
(* child's text) carries a string unchanged.                               *)
(***************************************************************************)
Q == "\""
Lits == {"null", "true", "false", "0", "1", "7"}

\* JSON values: a string, a literal (null, a boolean, a number) or an object
\* with its members in order.
JStr(s) == [t |-> "str", s |-> s, f |-> <<>>]
JLit(x) == [t |-> "lit", s |-> <<x>>, f |-> <<>>]
JObj(f) == [t |-> "obj", s |-> <<>>, f |-> f]

Escape(s) ==
    [k \in DOMAIN s |-> IF s[k] = Q THEN "\\\"" ELSE IF s[k] = "\\" THEN "\\\\" ELSE s[k]]
Unescape(s) ==
    [k \in DOMAIN s |-> IF s[k] = "\\\"" THEN Q ELSE IF s[k] = "\\\\" THEN "\\" ELSE s[k]]
Quote(s) == <<Q>> \o Escape(s) \o <<Q>>

RECURSIVE JSONstringify(_)
RECURSIVE StringifyMembers(_, _)
\* JSON.stringify
StringifyMembers(f, k) ==
    IF k > Len(f) THEN <<>>
    ELSE (IF k > 1 THEN <<",">> ELSE <<>>)
         \o Quote(f[k][1]) \o <<":">> \o JSONstringify(f[k][2])
         \o StringifyMembers(f, k + 1)
JSONstringify(v) ==
    IF v.t = "str" THEN Quote(v.s)
    ELSE IF v.t = "lit" THEN v.s
    ELSE <<"{">> \o StringifyMembers(v.f, 1) \o <<"}">>

\* JSON.parse, as a parser of the text from position i: whether it read a
\* value, the value, and the position after it.
Unread == [ok |-> FALSE, val |-> JLit("null"), next |-> 0]
Read(v, n) == [ok |-> TRUE, val |-> v, next |-> n]

ParseLiteral(s, i) ==
    IF i <= Len(s) /\ s[i] = Q /\ \E j \in i + 1 .. Len(s) : s[j] = Q
    THEN LET j == CHOOSE n \in i + 1 .. Len(s) :
                      s[n] = Q /\ \A k \in i + 1 .. n - 1 : s[k] # Q
             inner == SubSeq(s, i + 1, j - 1)
         IN  IF \E k \in DOMAIN inner : inner[k] = "\\"
             THEN Unread
             ELSE Read(JStr(Unescape(inner)), j + 1)
    ELSE Unread

RECURSIVE ParseValue(_, _)
RECURSIVE ParseMembers(_, _, _)
ParseMembers(s, i, acc) ==
    LET key == ParseLiteral(s, i)
    IN  IF ~key.ok \/ key.next > Len(s) \/ s[key.next] # ":"
        THEN Unread
        ELSE LET v == ParseValue(s, key.next + 1)
                 members == Append(acc, <<key.val.s, v.val>>)
             IN  IF ~v.ok \/ v.next > Len(s) THEN Unread
                 ELSE IF s[v.next] = "," THEN ParseMembers(s, v.next + 1, members)
                 ELSE IF s[v.next] = "}" THEN Read(JObj(members), v.next + 1)
                 ELSE Unread
ParseValue(s, i) ==
    IF i > Len(s) THEN Unread
    ELSE IF s[i] \in Lits THEN Read(JLit(s[i]), i + 1)
    ELSE IF s[i] = Q THEN ParseLiteral(s, i)
    ELSE IF s[i] = "{"
    THEN IF i + 1 <= Len(s) /\ s[i + 1] = "}"
         THEN Read(JObj(<<>>), i + 2)
         ELSE ParseMembers(s, i + 1, <<>>)
    ELSE Unread

\* JSON.parse(text): Null when it throws.
JSONparse(text) ==
    LET r == ParseValue(text, 1)
    IN  IF r.ok /\ r.next = Len(text) + 1 THEN Some(r.val) ELSE Null

\* v?.key: Null for undefined.  A repeated key has its last value.
Member(v, key) ==
    IF IsNull(v) \/ Val(v).t # "obj" THEN Null
    ELSE LET at == {k \in DOMAIN Val(v).f : Val(v).f[k][1] = key}
         IN  IF at = {} THEN Null
             ELSE Some(Val(v).f[CHOOSE k \in at : \A n \in at : n <= k][2])

\* Whether a value counts as true in x || y.
Truthy(v) ==
    /\ ~IsNull(v)
    /\ \/ Val(v).t = "obj"
       \/ Val(v).t = "str" /\ Val(v).s # <<>>
       \/ Val(v).t = "lit" /\ Val(v).s \notin {<<"null">>, <<"false">>, <<"0">>}

\* accounts.ts 398-400, 435-436, 474-475, 489-490: the stanza type for a
\* target address, jid.includes("@muclight.localhost").
MutStanzaType(jid) ==
    IF Len(jid) >= 2 /\ jid[Len(jid) - 1] = "@" /\ jid[Len(jid)] = "muclight.localhost"
    THEN "groupchat" ELSE "chat"
stanzaType(jid) ==
    IF \E n \in 1 .. Len(jid) - 1 : jid[n] = "@" /\ jid[n + 1] = "muclight.localhost"
    THEN "groupchat" ELSE "chat"

\* accounts.ts 402-411: the body envelope of a text message.
Envelope(text, senderName, bodyId) ==
    JSONstringify(JObj(<< <<<<"senderName">>,
                             JStr(IF senderName # <<>> THEN senderName ELSE <<"Clawdbot">>)>>,
                          <<<<"ver">>, JLit("1")>>,
                          <<<<"info">>, JObj(<< <<<<"message">>, JStr(text)>> >>)>>,
                          <<<<"id">>, JStr(bodyId)>>,
                          <<<<"type">>, JStr(<<"text">>)>>,
                          <<<<"lang">>, JStr(<<"en">>)>>,
                          <<<<"isFwd">>, JLit("false")>>,
                          <<<<"origin">>, JStr(<<"W|NodeJS|clawdbot">>)>> >>))

\* A stanza written to the transport: which call built it, its type and to
\* attributes and its body child's text (none: <<>>); text is the call's
\* text argument.
MkOut(kind, jid, body, text) ==
    [kind |-> kind, to |-> jid, type |-> stanzaType(jid), body |-> body, text |-> text]

\* accounts.ts 231-306: handleStanza at time t for the session of userId;
\* Null when no "message" event is emitted.
MutDecodedBody(rawBody) ==
    LET parsed == JSONparse(rawBody)
        info == Member(parsed, <<"info">>)
    IN  IF IsNull(parsed) THEN rawBody
        ELSE IF Truthy(Member(info, <<"caption">>)) THEN Val(Member(info, <<"caption">>)).s
        ELSE IF Truthy(Member(info, <<"message">>)) THEN Val(Member(info, <<"message">>)).s
        ELSE rawBody
decodedBody(rawBody) ==
    LET parsed == JSONparse(rawBody)
        info == Member(parsed, <<"info">>)
    IN  IF IsNull(parsed) THEN rawBody
        ELSE IF Truthy(Member(info, <<"message">>)) THEN Val(Member(info, <<"message">>)).s
        ELSE IF Truthy(Member(info, <<"caption">>)) THEN Val(Member(info, <<"caption">>)).s
        ELSE rawBody

\* accounts.ts 284-285: parsed?.senderName ?? parsed?.sender_name
decodedSenderName(rawBody) ==
    LET parsed == JSONparse(rawBody)
        defined(v) == ~IsNull(v) /\ Val(v) # JLit("null")
        name == IF defined(Member(parsed, <<"senderName">>))
                THEN Member(parsed, <<"senderName">>)
                ELSE Member(parsed, <<"sender_name">>)
    IN  IF defined(name) /\ Val(name).t = "str" THEN Val(name).s ELSE <<>>

\* new Date(stamp).getTime() for a stamp of s seconds after the epoch.
StampMs(s) == s * 1000

\* accounts.ts 241-268: the raw body and the timestamp, the archive result
\* unwrapped.
MutRawBodyOf(st) == st.body
rawBodyOf(st) ==
    IF ~IsNull(st.mam) /\ Val(st.mam).inner # <<>> THEN Val(st.mam).inner ELSE st.body
timestampOf(st, t) ==
    IF ~IsNull(st.mam) /\ Val(st.mam).stamp # NoStamp
    THEN StampMs(Val(st.mam).stamp) ELSE t

MutFromSelf(st, userId) == FALSE
FromSelf(st, userId) == Includes(st.from, userId)

handleStanza(st, t, userId) ==
    IF st.name # "message" THEN Null
    ELSE IF FromSelf(st, userId) THEN Null
    ELSE IF rawBodyOf(st) = <<>> THEN Null
    ELSE Some(MkEvent(st.from, decodedBody(rawBodyOf(st)),
                      decodedSenderName(rawBodyOf(st)), timestampOf(st, t)))

(***************************************************************************)
(* The streaming client writes stanzas and decodes inbound ones.           *)
(***************************************************************************)
Texts == { <<>>, <<"hi">>, <<"say", Q, "hi", Q>>, <<"a", "\\", "}">> }
GroupSelf == <<"g1", "@", "muclight.localhost", "/", "u1", "@", "localhost">>
GroupAlice == <<"g1", "@", "muclight.localhost", "/", "al", "@", "localhost">>
Targets == {Alice, AliceDevice, Group1, GroupAlice}

\* Body texts as they arrive: plain text, the envelope of a peer, envelopes
\* with a caption, without info, with an empty message, other JSON values and
\* text that is not JSON.
InfoBody(members) == JSONstringify(JObj(<< <<<<"info">>, JObj(members)>> >>))
Message(s) == <<<<"message">>, JStr(s)>>
Caption(s) == <<<<"caption">>, JStr(s)>>

JsonBodies ==
    { Envelope(<<"hi">>, <<"AL">>, <<"ID">>),
      InfoBody(<<Message(<<"hi">>), Caption(<<"cap">>)>>),
      InfoBody(<<Caption(<<"cap">>), Message(<<"hi">>)>>),
      InfoBody(<<Caption(<<"cap">>)>>),
      InfoBody(<<Message(<<>>), Caption(<<"cap">>)>>),
      InfoBody(<<>>),
      <<"{", "}">>,
      <<"null">>,
      <<"7">> }

PlainBodies == { <<"hi">>, <<"{", "hi">>, <<"{", Q, "info", Q, ":">> }

Archives ==
    { Some([inner |-> i, stamp |-> s]) :
        i \in {<<>>, <<"archived">>, InfoBody(<<Message(<<"archived">>)>>)},
        s \in {NoStamp, 0, 40} }

Stanzas ==
    { MkStanza("message", Alice, b, Null) : b \in JsonBodies \cup PlainBodies \cup {<<>>} }
    \cup { MkStanza("message", f, <<"hi">>, Null) : f \in {Self, GroupSelf, Group1, GroupAlice} }
    \cup { MkStanza("message", Alice, b, a) : b \in {<<>>, <<"outer">>}, a \in Archives }
    \cup { MkStanza("presence", Alice, <<>>, Null) }

LocalUserId == Val(stored).userId

\* accounts.ts 388-422: sendText builds the stanza and writes it.
SendText(jid, text, senderName) ==
    /\ Len(outbox) < MaxOut
    /\ cur # 0 /\ ~NotConnected(inst[cur])
    /\ outbox' = Append(outbox, MkOut("text", jid, Envelope(text, senderName, <<"ID">>), text))
    /\ UNCHANGED dec
    /\ UNCHANGED notWire

\* accounts.ts 425-466: sendMedia; the body child is the caption, when there
\* is one.
SendMedia(jid, caption) ==
    /\ Len(outbox) < MaxOut
    /\ cur # 0 /\ ~NotConnected(inst[cur])
    /\ outbox' = Append(outbox, MkOut("media", jid, caption, caption))
    /\ UNCHANGED dec
    /\ UNCHANGED notWire

\* accounts.ts 469-481: sendComposing.
SendComposing(jid) ==
    /\ Len(outbox) < MaxOut
    /\ cur # 0 /\ ~NotConnected(inst[cur])
    /\ outbox' = Append(outbox, MkOut("composing", jid, <<>>, <<>>))
    /\ UNCHANGED dec
    /\ UNCHANGED notWire

\* accounts.ts 485-497: sendPaused.
SendPaused(jid) ==
    /\ Len(outbox) < MaxOut
    /\ cur # 0 /\ ~NotConnected(inst[cur])
    /\ outbox' = Append(outbox, MkOut("paused", jid, <<>>, <<>>))
    /\ UNCHANGED dec
    /\ UNCHANGED notWire

\* accounts.ts 215-306: a stanza arrives and handleStanza runs on it.
Decoded(st, k) ==
    LET e == handleStanza(st, now, LocalUserId)
    IN  [pc |-> IF IsNull(e) THEN "dropped" ELSE "emitted", stanza |-> st, at |-> now,
         event |-> IF IsNull(e) THEN NoEvent ELSE Val(e), echo |-> k]

HandleStanza(m, st) ==
    /\ dec[m].pc = "idle"
    /\ \A k \in Msgs : k < m => dec[k].pc # "idle"
    /\ dec' = [dec EXCEPT ![m] = Decoded(st, 0)]
    /\ UNCHANGED outbox
    /\ UNCHANGED notWire

\* A text stanza a peer's sendText has built arrives from that peer.
HandleEcho(m, k) ==
    /\ dec[m].pc = "idle"
    /\ \A j \in Msgs : j < m => dec[j].pc # "idle"
    /\ k \in DOMAIN outbox
    /\ outbox[k].kind = "text"
    /\ dec' = [dec EXCEPT ![m] = Decoded(MkStanza("message", Alice, outbox[k].body, Null), k)]
    /\ UNCHANGED outbox
    /\ UNCHANGED notWire

InitWire ==
    /\ AuthAtRest
    /\ ConnOnline
    /\ GateIdle

NextWire ==
    \/ Tick
    \/ \E jid \in Targets, text \in Texts, name \in {<<>>, <<"Bot">>} : SendText(jid, text, name)
    \/ \E jid \in Targets, caption \in {<<>>, <<"cap">>} : SendMedia(jid, caption)
    \/ \E jid \in Targets : SendComposing(jid)
    \/ \E jid \in Targets : SendPaused(jid)
    \/ \E m \in 1 .. MaxIn, st \in Stanzas : HandleStanza(m, st)
    \/ \E m \in 1 .. MaxIn, k \in 1 .. MaxOut : HandleEcho(m, k)

SpecWire == InitWire /\ [][NextWire]_vars

(***************************************************************************)
(* The monitor (monitor.ts 43-389) on the process-wide shared client       *)
(* (client.ts 404-416), and the way of a stanza from the decode through    *)
(* handleMessage to the reply dispatcher.                                  *)
(***************************************************************************)
\* client.ts 407-412: the shared client, constructed when there is none.
getSharedElymentsClient == IF mon.client = 0 THEN mon.made + 1 ELSE mon.client

\* monitor.ts 43-371: monitorElymentsProvider is called, while no other run
\* is under way: it takes the shared client, registers handleMessage on it
\* and calls client.connect().  A newly constructed client holds no instance
\* (client.ts 35); the instance of a client given up is observed no more.
MonitorStart ==
    /\ mon.pc \in {"idle", "threw", "returned"}
    /\ mon.runs < MaxRuns
    /\ ~IsNull(loadElymentsSession)
    /\ mon' = [mon EXCEPT !.pc = "connecting",
                          !.runs = @ + 1,
                          !.client = getSharedElymentsClient,
                          !.made = IF mon.client = 0 THEN @ + 1 ELSE @,
                          !.handlers = IF mon.client = 0 THEN 1 ELSE @ + 1,
                          !.aborted = FALSE,
                          !.did = <<>>]
    /\ IF mon.client = 0
       THEN /\ inst' = [i \in Insts |-> InstNew] /\ cur' = 0
            /\ tr' = [t \in Trans |-> TrNew] /\ con' = [c \in Connects |-> ConNew]
            /\ onl' = [t \in Trans |-> OnlNew] /\ dis' = [i \in Insts |-> DisNew]
            /\ timers' = {} /\ ev' = [i \in Insts |-> <<>>] /\ heard' = {}
            /\ UNCHANGED <<snd, pings>>
       ELSE UNCHANGED connVars
    /\ UNCHANGED notMon

\* monitor.ts 371-372: client.connect() settles: it resolves with the client
\* online, or it rejects (no valid session, or the transport does not start)
\* and monitorElymentsProvider rejects with it.
MonitorConnect(ok) ==
    /\ mon.pc = "connecting"
    /\ cur = 0
    /\ IF ok
       THEN /\ inst' = Online.inst /\ cur' = Online.cur /\ tr' = Online.tr
            /\ con' = Online.con /\ onl' = Online.onl /\ dis' = Online.dis
            /\ snd' = Online.snd /\ timers' = Online.timers /\ pings' = Online.pings
            /\ ev' = Online.ev /\ heard' = Online.heard
            /\ mon' = [mon EXCEPT !.pc = IF mon.aborted THEN "onAbort" ELSE "waiting"]
       ELSE /\ UNCHANGED connVars
            /\ mon' = [mon EXCEPT !.pc = "threw"]
    /\ UNCHANGED notMon

\* accounts.ts 207-209, 219-306, client.ts 63, monitor.ts 81-104: a stanza
\* arrives on the online client; handleStanza decodes it, the "message" event
\* is forwarded to the client's listeners, and every registered handleMessage
\* runs up to its first await.
Inbound(m, st) ==
    /\ mon.pc = "waiting"
    /\ now >= StartupMs
    /\ dec[m].pc = "idle"
    /\ \A k \in Msgs : k < m => dec[k].pc # "idle"
    /\ LET e == handleStanza(st, now, LocalUserId)
           free == {k \in Msgs : hm[k].pc = "idle"}
           n == IF IsNull(e) THEN 0 ELSE mon.handlers
           runs == {k \in free : Cardinality({j \in free : j < k}) < n}
       IN  /\ Cardinality(free) >= n
           /\ dec' = [dec EXCEPT ![m] = Decoded(st, 0)]
           /\ hm' = [k \in Msgs |-> IF k \in runs THEN Received(hm[k], Val(e)) ELSE hm[k]]
           /\ disp' = [k \in Msgs |-> IF k \in runs THEN [disp[k] EXCEPT !.of = m]
                                      ELSE disp[k]]
    /\ UNCHANGED <<cfg, store, outbox, mon, dir, ext>>
    /\ UNCHANGED <<authVars, connVars, otp>>

\* monitor.ts 232-333: an admitted event's context is built, for a direct
\* message the last route is updated (a rejection ends the run in the catch
\* at 352), and dispatchReplyFromConfig is called with the context.
Handoff(k) ==
    /\ hm[k].pc = "done"
    /\ hm[k].decision = "admit"
    /\ disp[k].pc = "idle"
    /\ \E routed \in BOOLEAN :
        /\ isElymentsGroup(hm[k].event.from) => routed
        /\ disp' = [disp EXCEPT ![k] =
                IF routed
                THEN [@ EXCEPT !.pc = "dispatching", !.handed = @ + 1]
                ELSE [@ EXCEPT !.pc = "failed"]]
    /\ UNCHANGED notDisp

\* monitor.ts 311-318, 392-420: the reply dispatcher delivers a reply with
\* sendMessageElyments.
Reply(k) ==
    /\ disp[k].pc = "dispatching"
    /\ disp[k].replies < MaxReplies
    /\ disp' = [disp EXCEPT ![k].replies = @ + 1]
    /\ UNCHANGED notDisp

\* monitor.ts 324-353: dispatchReplyFromConfig settles and the run ends.
Finish(k) ==
    /\ disp[k].pc = "dispatching"
    /\ disp' = [disp EXCEPT ![k].pc = "done"]
    /\ UNCHANGED notDisp

InboundStanzas ==
    { MkStanza("message", f, <<"hi">>, Null) : f \in {Alice, Self, GroupSelf, Group1} }
    \cup { MkStanza("message", Alice, Envelope(<<"hi">>, <<"AL">>, <<"ID">>), Null),
           MkStanza("message", Alice, <<>>, Some([inner |-> <<"archived">>, stamp |-> 0])) }

InboundConfigs ==
    { CfgNew,
      [CfgNew EXCEPT !.allowFrom = {Alice}],
      [CfgNew EXCEPT !.dmPolicy = "disabled"],
      [CfgNew EXCEPT !.groupPolicy = "open",
                     !.groups = {MkGroup(Group1, "unset", {}, "false", "false")}] }

InitInbound ==
    /\ AuthAtRest
    /\ ConnIdle
    /\ cfg \in InboundConfigs
    /\ store = StoreNew
    /\ hm = [m \in Msgs |-> HmNew]

NextInbound ==
    \/ Tick
    \/ MonitorStart
    \/ \E ok \in BOOLEAN : MonitorConnect(ok)
    \/ \E m \in Msgs, st \in InboundStanzas : Inbound(m, st)
    \/ \E k \in Msgs : ReadStore(k)
    \/ \E k \in Msgs : Upsert(k)
    \/ \E k \in Msgs : Notify(k)
    \/ \E k \in Msgs : Handoff(k)
    \/ \E k \in Msgs : Reply(k)
    \/ \E k \in Msgs : Finish(k)

SpecInbound == InitInbound /\ [][NextInbound]_vars

(***************************************************************************)
(* The monitor's shutdown (monitor.ts 374-389).                            *)
(***************************************************************************)
\* The abort signal fires.  While the monitor waits, its "abort" listener
\* onAbort runs at once; while client.connect() is pending, the signal is
\* found aborted when the wait begins (monitor.ts 384-387).
Abort ==
    /\ mon.pc \in {"connecting", "waiting"}
    /\ ~mon.aborted
    /\ mon' = [mon EXCEPT !.aborted = TRUE,
                          !.pc = IF @ = "waiting" THEN "onAbort" ELSE @]
    /\ UNCHANGED connVars
    /\ UNCHANGED notMon

\* monitor.ts 376-382: where onAbort goes on after client.disconnect(),
\* whether or not the call threw: to the finally block.
MutAfterDisconnect(threw) == IF threw THEN "thrown" ELSE "finally"
AfterDisconnect(threw) == "finally"

\* monitor.ts 377-378, client.ts 74-79: onAbort calls client.disconnect(),
\* which calls disconnect() on the instance the client holds and is not
\* awaited.
AbortDisconnect(threw) ==
    /\ mon.pc = "onAbort"
    /\ IF cur # 0 /\ dis[cur].pc = "idle" /\ ~threw
       THEN DisconnectSync(cur)
       ELSE UNCHANGED <<timers, inst, dis>>
    /\ mon' = [mon EXCEPT !.pc = AfterDisconnect(threw),
                          !.did = Append(@, IF threw THEN "disconnectThrew"
                                            ELSE "disconnect")]
    /\ UNCHANGED <<cur, tr, con, onl, snd, pings, ev, heard>>
    /\ UNCHANGED notMon

\* monitor.ts 380, client.ts 414-416: setSharedElymentsClient(null).
AbortClear ==
    /\ mon.pc = "finally"
    /\ mon' = [mon EXCEPT !.pc = "resolving", !.client = 0, !.did = Append(@, "clear")]
    /\ UNCHANGED connVars
    /\ UNCHANGED notMon

\* monitor.ts 381: resolve().
AbortResolve ==
    /\ mon.pc = "resolving"
    /\ mon' = [mon EXCEPT !.pc = "resolved", !.did = Append(@, "resolve")]
    /\ UNCHANGED connVars
    /\ UNCHANGED notMon

\* monitor.ts 375, 389: the awaited promise is resolved and
\* monitorElymentsProvider returns.
MonitorReturn ==
    /\ mon.pc = "resolved"
    /\ mon' = [mon EXCEPT !.pc = "returned"]
    /\ UNCHANGED connVars
    /\ UNCHANGED notMon

InitMonitor ==
    /\ AuthAtRest
    /\ ConnIdle
    /\ GateIdle

OnAbort ==
    \/ \E threw \in BOOLEAN : AbortDisconnect(threw)
    \/ AbortClear
    \/ AbortResolve

NextMonitor ==
    \/ Tick
    \/ MonitorStart
    \/ \E ok \in BOOLEAN : MonitorConnect(ok)
    \/ Abort
    \/ \E threw \in BOOLEAN : AbortDisconnect(threw)
    \/ AbortClear
    \/ AbortResolve
    \/ MonitorReturn
    \/ \E t \in Trans : OnOffline(t)
    \/ \E t \in Trans, ok \in BOOLEAN : PingTick(t, ok)
    \/ \E i \in Insts : DisconnectDone(i)

SpecMonitor == InitMonitor /\ [][NextMonitor]_vars

\* client.connect() settles (the transport's own connect timeout), and the
\* synchronous onAbort and the continuation of the await run once they are
\* due.
SpecMonitorFair ==
    /\ SpecMonitor
    /\ WF_vars(\E ok \in BOOLEAN : MonitorConnect(ok))
    /\ WF_vars(OnAbort)
    /\ WF_vars(MonitorReturn)

(***************************************************************************)
(* The recipient index and resolveRecipient (client.ts 156-310).  The      *)
(* index maps a key to an entry; it is held as the set of its              *)
(* [key, jid, title, isGroup] records, one per key.                        *)
(***************************************************************************)
MkEntry(jid, title, isGroup) == [jid |-> jid, title |-> title, isGroup |-> isGroup]
Keyed(key, entry) ==
    [key |-> key, jid |-> entry.jid, title |-> entry.title, isGroup |-> entry.isGroup]

\* recipientIndex.set(key, entry) and recipientIndex.get(key)
IndexSet(index, key, entry) == {x \in index : x.key # key} \cup {Keyed(key, entry)}
IndexGet(index, key) ==
    IF \E x \in index : x.key = key
    THEN Some(CHOOSE x \in index : x.key = key)
    ELSE Null

\* accounts.ts 547-550
formatGroupJid(groupId) ==
    IF isElymentsGroup(groupId) THEN groupId ELSE groupId \o <<"@", "muclight.localhost">>

\* client.ts 188-201, 245-259: a listed chat or group is indexed under its
\* lower-cased address and under its lower-cased title.
Indexed(index, entry) ==
    IndexSet(IndexSet(index, toLowerCase(entry.jid), entry), toLowerCase(entry.title), entry)

\* client.ts 157-212: the index after listChats got the answer resp.
AfterListChats(index, resp) ==
    IF resp = {} THEN index ELSE LET c == CHOOSE c \in resp : TRUE IN Indexed(index, c)

\* client.ts 215-270: the index after listGroups got the answer resp.
AfterListGroups(index, resp) ==
    IF resp = {} THEN index
    ELSE LET g == CHOOSE g \in resp : TRUE
         IN  Indexed(index, MkEntry(formatGroupJid(g.jid), g.title, TRUE))

\* What Chat/List and Group/List answer: nothing, or one chat or group.  The
\* address of a chat is whatever the platform reports, with or without domain.
ChatLists ==
    { {}, {MkEntry(Alice, <<"AL">>, FALSE)},
      {MkEntry(<<"AL", "@", "localhost">>, <<>>, FALSE)},
      {MkEntry(<<"bo">>, <<"R">>, FALSE)} }
GroupLists == { {}, {MkEntry(<<"g1">>, <<"R">>, TRUE)} }

\* client.ts 274, 277
MutNormalizeQuery(query) == query
NormalizeQuery(query) == trim(toLowerCase(query))
IsAddress(s) ==
    \E n \in 1 .. Len(s) - 1 :
        s[n] = "@" /\ s[n + 1] \in {"localhost", "muclight.localhost"}

FoundEntry(e) == Some(MkEntry(e.jid, e.title, e.isGroup))

\* client.ts 278-283: the answer for a query that is an address.
MutAddressAnswer(index, normalized) ==
    Some(MkEntry(normalized, normalized, isElymentsGroup(normalized)))
AddressAnswer(index, normalized) ==
    LET existing == IndexGet(index, normalized)
    IN  Some(MkEntry(normalized,
                     IF ~IsNull(existing) /\ Val(existing).title # <<>>
                     THEN Val(existing).title ELSE normalized,
                     isElymentsGroup(normalized)))

Queries ==
    { Alice, <<"AL", "@", "localhost">>, <<" ", "al", "@", "localhost", " ">>,
      Group1, <<"AL">>, <<"r">>, <<"bo">> }

\* client.ts 157-212: listChats is called on its own and is answered.
ListChats(resp) ==
    /\ dir.pc \in {"idle", "done", "threw"}
    /\ dir' = [dir EXCEPT !.index = AfterListChats(@, resp)]
    /\ UNCHANGED notDir

\* client.ts 273-297: resolveRecipient(query) is called; it answers at once
\* for an address and for an indexed key, and otherwise calls listChats.
ResolveStart(query) ==
    /\ dir.pc \in {"idle", "done", "threw"}
    /\ dir.calls < MaxResolves
    /\ LET normalized == NormalizeQuery(query)
           entry == IndexGet(dir.index, normalized)
           d == [dir EXCEPT !.calls = @ + 1, !.query = query, !.seen = dir.index,
                            !.listings = <<>>, !.result = Null]
       IN  dir' = IF IsAddress(normalized)
                  THEN [d EXCEPT !.pc = "done",
                                 !.result = AddressAnswer(dir.index, normalized)]
                  ELSE IF ~IsNull(entry)
                  THEN [d EXCEPT !.pc = "done", !.result = FoundEntry(Val(entry))]
                  ELSE [d EXCEPT !.pc = "listChats", !.listings = <<"listChats">>]
    /\ UNCHANGED notDir

\* client.ts 297-298: listChats is answered, or throws and resolveRecipient
\* with it; then listGroups is called.
ResolveListChats(ok, resp) ==
    /\ dir.pc = "listChats"
    /\ dir' = IF ok
              THEN [dir EXCEPT !.index = AfterListChats(@, resp), !.pc = "listGroups",
                               !.listings = Append(@, "listGroups")]
              ELSE [dir EXCEPT !.pc = "threw"]
    /\ UNCHANGED notDir

\* client.ts 300-309: the key is looked up again after the two listings.
MutRefreshedEntry(index, normalized) == Null
RefreshedEntry(index, normalized) ==
    LET entry == IndexGet(index, normalized)
    IN  IF IsNull(entry) THEN Null ELSE FoundEntry(Val(entry))

\* client.ts 298-309: listGroups is answered, or throws; the key is looked up
\* again.
ResolveListGroups(ok, resp) ==
    /\ dir.pc = "listGroups"
    /\ LET index == AfterListGroups(dir.index, resp)
       IN  dir' = IF ok
                  THEN [dir EXCEPT !.index = index, !.pc = "done",
                                   !.result = RefreshedEntry(index,
                                                  NormalizeQuery(dir.query))]
                  ELSE [dir EXCEPT !.pc = "threw"]
    /\ UNCHANGED notDir

InitResolve ==
    /\ AuthAtRest
    /\ ConnIdle
    /\ GateIdle

NextResolve ==
    \/ \E resp \in ChatLists : ListChats(resp)
    \/ \E query \in Queries : ResolveStart(query)
    \/ \E ok \in BOOLEAN, resp \in ChatLists : ResolveListChats(ok, resp)
    \/ \E ok \in BOOLEAN, resp \in GroupLists : ResolveListGroups(ok, resp)

SpecResolve == InitResolve /\ [][NextResolve]_vars

(***************************************************************************)
(* Session extraction from a response body (auth.ts 92-117, 177-199).  The *)
(* body is a JSON value; a field is read under a chain of spellings joined *)
(* by ??, which passes over undefined and null only.                       *)
(***************************************************************************)
\* x ?? y: is x passed over?
Nullish(v) == IsNull(v) \/ Val(v) = JLit("null")

\* vs[1] ?? vs[2] ?? ... ?? vs[Len(vs)]
Coalesce(vs) ==
    LET found == {k \in DOMAIN vs : ~Nullish(vs[k])}
    IN  IF found = {} THEN vs[Len(vs)]
        ELSE vs[CHOOSE k \in found : \A n \in found : k <= n]

\* String(v)
String(v) == IF v.t = "obj" THEN <<"[object Object]">> ELSE v.s

WrapperKeys == <<"ResponseData", "result", "data">>
UserIdKeys == <<"UserId", "userId", "user_id">>
AccessTokenKeys == <<"AccessToken", "accessToken", "access_token", "token">>
ChatAccessTokenKeys ==
    <<"ChatAccessToken", "chatAccessToken", "chat_access_token", "chatToken">>
RefreshTokenKeys == <<"RefreshToken", "refreshToken", "refresh_token">>

\* data.K1 ?? data.K2 ?? ...
Probe(data, keys) == [k \in DOMAIN keys |-> Member(data, keys[k])]

\* auth.ts 98 / 181: r.ResponseData ?? r.result ?? r.data ?? r
PayloadOf(r) == Coalesce(Probe(Some(r), WrapperKeys) \o <<Some(r)>>)

\* auth.ts 93 / 178: !response || typeof response !== "object"
IsObject(response) == ~IsNull(response) /\ Val(response).t = "obj"

\* auth.ts 92-117
extractSessionFrom(response, t) ==
    IF ~IsObject(response) THEN Null
    ELSE LET data == PayloadOf(Val(response))
             userId == Coalesce(Probe(data, UserIdKeys)
                                \o <<Member(Member(data, "user"), "id")>>)
             accessToken == Coalesce(Probe(data, AccessTokenKeys))
             chatAccessToken == Coalesce(Probe(data, ChatAccessTokenKeys))
             refreshToken == Coalesce(Probe(data, RefreshTokenKeys))
         IN  IF ~Truthy(userId) \/ ~Truthy(accessToken) \/ ~Truthy(chatAccessToken)
             THEN Null
             ELSE Some(MkSession(String(Val(userId)), String(Val(accessToken)),
                                 String(Val(chatAccessToken)),
                                 IF Truthy(refreshToken) THEN String(Val(refreshToken))
                                 ELSE <<>>, t))

\* auth.ts 177-199; the existing session's userId and refreshToken are strings.
extractRefreshedSessionFrom(response, existing, t) ==
    IF ~IsObject(response) THEN Null
    ELSE LET data == PayloadOf(Val(response))
             userId == Coalesce(Probe(data, UserIdKeys) \o <<Some(JStr(existing.userId))>>)
             accessToken == Coalesce(Probe(data, AccessTokenKeys))
             chatAccessToken == Coalesce(Probe(data, ChatAccessTokenKeys))
             refreshToken == Coalesce(Probe(data, RefreshTokenKeys)
                                      \o <<Some(JStr(existing.refreshToken))>>)
         IN  IF ~Truthy(userId) \/ ~Truthy(accessToken) \/ ~Truthy(chatAccessToken)
             THEN Null
             ELSE Some(MkSession(String(Val(userId)), String(Val(accessToken)),
                                 String(Val(chatAccessToken)),
                                 IF Truthy(refreshToken) THEN String(Val(refreshToken))
                                 ELSE existing.refreshToken, t))

\* The session a refresh starts from.
ExistingSession == MkSession(<<"u0">>, <<"a0">>, <<"c0">>, <<"r0">>, 0)

\* The payloads of the platform's answers: each of the four fields absent or
\* under one of its spellings (the userId also as user.id).
KV(key, value) == <<key, value>>
Spelled(keys, value) ==
    {<<>>} \cup {<<KV(keys[k], JStr(value))>> : k \in DOMAIN keys}
Payloads ==
    { JObj(u \o a \o c \o r) :
        u \in Spelled(UserIdKeys, <<"u1">>)
              \cup {<<KV("user", JObj(<<KV("id", JStr(<<"u1">>))>>))>>},
        a \in Spelled(AccessTokenKeys, <<"a1">>),
        c \in Spelled(ChatAccessTokenKeys, <<"c1">>),
        r \in Spelled(RefreshTokenKeys, <<"r1">>) }

\* A payload as the platform sends it: at top level, or under a wrapper key
\* next to the success flag.
Wrapped(p) ==
    {p} \cup {JObj(<<KV("IsSuccess", JLit("true")), KV(WrapperKeys[k], p)>>) :
                k \in DOMAIN WrapperKeys}

FullPayload ==
    JObj(<<KV("userId", JStr(<<"u1">>)), KV("accessToken", JStr(<<"a1">>)),
           KV("chatAccessToken", JStr(<<"c1">>))>>)

\* Answers with more than one wrapper key or more than one spelling of a
\* field, and with values that are not strings.
OddResponses ==
    { JObj(<<KV("result", JStr(<<"ok">>)), KV("data", FullPayload)>>),
      JObj(<<KV("ResponseData", JLit("null")), KV("data", FullPayload)>>),
      JObj(<<KV("data", JObj(<<>>))>> \o FullPayload.f),
      JObj(<<KV("AccessToken", JStr(<<>>))>> \o FullPayload.f),
      JObj(<<KV("AccessToken", JLit("null"))>> \o FullPayload.f),
      JObj(<<KV("UserId", JStr(<<>>)), KV("accessToken", JStr(<<"a1">>)),
             KV("chatAccessToken", JStr(<<"c1">>))>>),
      JObj(<<KV("userId", JLit("7")), KV("token", JStr(<<"a1">>)),
             KV("chatToken", JStr(<<"c1">>)), KV("refreshToken", JStr(<<>>))>>),
      JStr(<<"ok">>) }

Responses == UNION {Wrapped(p) : p \in Payloads} \cup OddResponses

\* auth.ts 166: verifyOtp hands the parsed body to extractSession.
ExtractSession ==
    /\ ext.pc = "called" /\ ext.kind = "verify"
    /\ ext' = [ext EXCEPT !.pc = "done",
                          !.result = extractSessionFrom(ext.response, now)]
    /\ UNCHANGED notExt

\* auth.ts 251: refreshSession hands the parsed body and the session it
\* loaded to extractRefreshedSession.
ExtractRefreshedSession ==
    /\ ext.pc = "called" /\ ext.kind = "refresh"
    /\ ext' = [ext EXCEPT !.pc = "done",
                          !.result = extractRefreshedSessionFrom(ext.response,
                                                                 ExistingSession, now)]
    /\ UNCHANGED notExt

InitExtract ==
    /\ now = 0
    /\ ticks = 0
    /\ stored = Null
    /\ device = 1
    /\ minted = 1
    /\ requests = 0
    /\ war = [p \in Procs |-> WarIdle]
    /\ ConnIdle
    /\ GateIdle
    /\ otp = OtpIdle
    /\ WireIdle
    /\ disp = [m \in Msgs |-> DispNew]
    /\ mon = MonNew
    /\ dir = DirNew
    /\ ext \in { [pc |-> "called", kind |-> kind, response |-> Some(r), result |-> Null] :
                   kind \in {"verify", "refresh"}, r \in Responses }

NextExtract ==
    \/ ExtractSession
    \/ ExtractRefreshedSession

SpecExtract == InitExtract /\ [][NextExtract]_vars

(***************************************************************************)
(* Claims about withAutoRefresh, checked under SpecAuth.                   *)
(***************************************************************************)
\* The messages of ErrMsgs that contain "401", "unauthorized" or "expired".
AuthMessages == { <<"Failed", "401">>, <<"unauthorized">>, <<"token", "expired">> }

FirstFailedAuth(w) ==
    /\ Len(w.calls) >= 1
    /\ ~w.calls[1].ok
    /\ w.calls[1].err.msg \in AuthMessages

\* The refresh started after the first failure came back with a session.
PostRefreshOk(w) == ~IsNull(w.postRes) /\ Val(w.postRes).success

\* C1: in any single invocation of withAutoRefresh, fn is called at most twice,
\* and a second call happens only if the first call failed with an
\* authorization-shaped error and the refreshSession that followed succeeded.
C1_AtMostTwoCalls ==
    \A p \in Procs :
        /\ Len(war[p].calls) <= 2
        /\ (Len(war[p].calls) = 2 \/ war[p].pc = "call2") =>
              /\ FirstFailedAuth(war[p])
              /\ war[p].postRefresh = 1
              /\ PostRefreshOk(war[p])

C1_Witness ==
    \E p \in Procs : war[p].pc = "done" /\ Len(war[p].calls) = 2

\* C9 as stated: when the operation fails with an authorization-shaped error,
\* the invocation performs exactly one refresh() in all and retries the
\* operation once, with the session that refresh returned and not the session
\* of the first attempt.
C9_Original ==
    \A p \in Procs :
        (war[p].pc = "done" /\ FirstFailedAuth(war[p])) =>
            /\ war[p].preRefresh + war[p].postRefresh = 1
            /\ Len(war[p].calls) = 2
            /\ war[p].calls[2].sess = Val(war[p].postRes).session
            /\ war[p].calls[2].sess # war[p].calls[1].sess

\* C9 amended: when the operation fails with an authorization-shaped error,
\* the invocation performs exactly one refresh() after that failure (besides
\* the one getValidSession performs before the first attempt when the persisted
\* access token is expiring) and, if that refresh succeeds, retries the
\* operation once with the session it returned, not the session of the first
\* attempt; if it fails there is no retry.
C9_OneRefreshThenRetry ==
    \A p \in Procs :
        /\ war[p].preRefresh <= 1 /\ war[p].postRefresh <= 1
        /\ (war[p].pc = "done" /\ FirstFailedAuth(war[p])) =>
              /\ war[p].postRefresh = 1
              /\ IF PostRefreshOk(war[p])
                 THEN /\ Len(war[p].calls) = 2
                      /\ war[p].calls[2].sess = Val(war[p].postRes).session
                      /\ war[p].calls[2].sess # war[p].calls[1].sess
                 ELSE Len(war[p].calls) = 1

C9_Witness ==
    \E p \in Procs :
        /\ war[p].pc = "done" /\ FirstFailedAuth(war[p])
        /\ war[p].preRefresh = 1 /\ PostRefreshOk(war[p])
        /\ Len(war[p].calls) = 2

\* C10: withAutoRefresh propagates failures unmodified: a first error that is
\* not authorization-shaped is rethrown with no refresh and no retry; when the
\* retry after a successful refresh fails, that second error reaches the
\* caller; when the refresh fails, the first error reaches the caller and the
\* operation is not called again.
C10_FailuresPropagate ==
    \A p \in Procs :
        (war[p].pc = "done" /\ Len(war[p].calls) >= 1 /\ ~war[p].calls[1].ok) =>
            LET w == war[p]
                thrown(e) == w.out = Some([kind |-> "throw", err |-> e])
            IN  /\ w.calls[1].err.msg \notin AuthMessages =>
                      thrown(w.calls[1].err) /\ w.postRefresh = 0 /\ Len(w.calls) = 1
                /\ (Len(w.calls) = 2 /\ ~w.calls[2].ok) => thrown(w.calls[2].err)
                /\ (w.calls[1].err.msg \in AuthMessages /\ ~PostRefreshOk(w)) =>
                      thrown(w.calls[1].err) /\ Len(w.calls) = 1 /\ w.postRefresh = 1

C10_Witness ==
    \E p \in Procs :
        /\ war[p].pc = "done" /\ FirstFailedAuth(war[p])
        /\ ~IsNull(war[p].postRes) /\ ~Val(war[p].postRes).success
        /\ war[p].out = Some([kind |-> "throw", err |-> war[p].calls[1].err])

(***************************************************************************)
(* Claims about the streaming client, checked under SpecConn and           *)
(* SpecReconnect.                                                          *)
(***************************************************************************)
\* Instance i has left Online: one of its transports has closed or been stopped.
HasLeftOnline(i) ==
    \E t \in Trans : tr[t].owner = i /\ tr[t].status \in {"offline", "stopped"}

TimersOf(i) == {t \in timers : tr[t].owner = i}

\* C4: in every reachable state in which the connection is not Online, after a
\* transport "offline" event or after disconnect(), no keep-alive timer is
\* armed (and no liveness probe is sent), whatever the interleaving of the
\* online handler with offline events and disconnect().
C4_NoTimerWhenNotOnline ==
    \A i \in Insts :
        (inst[i].made /\ ~inst[i].connected /\ HasLeftOnline(i)) => TimersOf(i) = {}

\* C5: sendText / sendMedia never hand a stanza to the transport while the
\* connection is not Online; a call that finds the connection not Online, at
\* its check or at its write, fails with the not-connected error.
C5_NoWriteWhenNotOnline ==
    \A k \in Sends :
        /\ ~snd[k].wroteOffline
        /\ snd[k].lostOnline => snd[k].result = "NotConnected"

\* C6: a connect() call made while the client is already Connecting or Online
\* is a no-op: it creates no transport, tears nothing down and emits no event;
\* for ElymentsXmppClient.connect and for ElymentsClient.connect.
C6_ConnectIsNoOp ==
    \A c \in Connects :
        con[c].busy =>
            /\ con[c].t = 0
            /\ ~con[c].tore
            /\ con[c].pc \notin {"import", "starting"}

IsPrefix(a, b) == Len(a) <= Len(b) /\ \A n \in DOMAIN a : a[n] = b[n]

\* C7 as stated: once the keep-alive is being started for an "online" report,
\* the four stanzas of the setup sequence have all been sent, in order.
C7_Original ==
    \A t \in Trans :
        onl[t].pc \in {"arm", "done"} => onl[t].sent = InitStanzas

\* C7 amended: for each "online" report the client sends the session request,
\* the presence, the enable-carbons request and the roster request in exactly
\* that order, each after the previous one was sent, and stops at the first
\* send that fails; the keep-alive timer is started only after this sequence
\* has ended, with all four sent or with the first failure.
C7_SetupThenKeepAlive ==
    \A t \in Trans :
        /\ IsPrefix(onl[t].sent, InitStanzas)
        /\ StepOf(onl[t].pc) > 0 =>
              /\ Len(onl[t].sent) = StepOf(onl[t].pc) - 1
              /\ ~onl[t].failed
              /\ t \notin timers
        /\ onl[t].pc \in {"afterInit", "arm", "done"} =>
              (onl[t].sent = InitStanzas) # onl[t].failed
        /\ t \in timers => onl[t].pc = "done"

C7_Witness ==
    \E t \in Trans :
        /\ onl[t].pc = "done" /\ t \in timers
        /\ onl[t].failed /\ onl[t].sent = <<"session", "presence">>

\* C8: when the transport closes, the client becomes not-connected, clears the
\* keep-alive interval it holds and emits "offline" followed by exactly one
\* "disconnected" carrying a reason; the step starts no connection attempt,
\* and the client is Online only while a transport created by a connect() call
\* reports online: a closed transport never comes back.
C8_OfflineNoReconnect ==
    /\ [](\A i \in Insts :
            inst[i].connected =>
                \E t \in Trans, c \in Connects :
                    tr[t].owner = i /\ tr[t].status = "online" /\ con[c].t = t)
    /\ [][\A t \in Trans :
            /\ tr[t].status \in {"offline", "stopped"} =>
                  tr'[t].status \in {"offline", "stopped"}
            /\ (tr[t].status = "online" /\ tr'[t].status = "offline") =>
                  LET i == tr[t].owner
                  IN  /\ ~inst'[i].connected
                      /\ inst'[i].pingInterval = 0
                      /\ inst[i].pingInterval \notin timers'
                      /\ inst'[i].xmpp = inst[i].xmpp
                      /\ ev'[i] = ev[i] \o <<Event("offline", ""),
                                             Event("disconnected", "offline")>>
                      /\ \A u \in Trans : u # t => tr'[u] = tr[u]
                      /\ con' = con]_vars

C8_Witness ==
    \E t \in Trans :
        /\ tr[t].status = "offline" /\ onl[t].pc = "done"
        /\ ~inst[tr[t].owner].connected
        /\ Len(ev[tr[t].owner]) = 5

(***************************************************************************)
(* Claims about the policy gate, checked under SpecGate.                   *)
(***************************************************************************)
\* The run h has ended for a direct message that reached the policy check:
\* an event from after the start, not from the account itself, with a body.
ReachedDmPolicy(h) ==
    /\ h.pc = "done"
    /\ ~isElymentsGroup(h.event.from)
    /\ h.reason \notin {"old", "self", "blank"}

\* The list names the sender of e: by the wildcard, the sender's id, the full
\* from-address or the from-address without its resource, letter case and
\* surrounding white space of the entries aside.
Listed(e, list) ==
    \E entry \in list :
        LET x == trim(toLowerCase(entry))
        IN  \/ x = <<"*">>
            \/ x = toLowerCase(extractUserId(e.from))
            \/ x = toLowerCase(e.from)
            \/ x = toLowerCase(SplitHead(e.from, "/"))

\* The runs for direct messages of the sender id that have got to the pairing
\* store or beyond it.
AtStore(id) ==
    { m \in Msgs : /\ senderId(hm[m].event) = id
                   /\ \/ hm[m].pc = "notify"
                      \/ hm[m].pc = "done" /\ hm[m].reason \in {"pairing", "pairingRepeat"} }

Unapproved(id) ==
    \A e \in DmEvents :
        senderId(e) = id => ~Listed(e, cfg.allowFrom \cup store.allowFrom)

Pairing == cfg.dmEnabled /\ cfg.dmPolicy = "pairing"

\* C2 as stated: under policy pairing, once the direct messages of a sender who
\* is not approved have been handled, exactly one pairing notice has been sent
\* to that sender, by the run whose upsert created the request; the other runs
\* sent none, and no message was admitted.
C2_Original ==
    Pairing =>
        \A id \in {senderId(e) : e \in DmEvents} :
            (Unapproved(id) /\ AtStore(id) # {}
                /\ \A m \in AtStore(id) : hm[m].pc = "done") =>
                /\ Cardinality({m \in AtStore(id) : hm[m].notice = "sent"}) = 1
                /\ \A m \in AtStore(id) :
                    /\ hm[m].notice = "sent" <=> hm[m].created
                    /\ hm[m].decision = "deny"

\* C2 amended: under policy pairing, for a sender who is not approved, the send
\* of a pairing notice is attempted exactly once, by the run whose upsert
\* created the request, so that at most one notice is sent (a failed send is
\* logged and not repeated); every other message is denied with no notice
\* attempted, and no message of the sender is admitted.
C2_OneNoticeAttempt ==
    Pairing =>
        \A id \in {senderId(e) : e \in DmEvents} :
            Unapproved(id) =>
                /\ AtStore(id) # {} =>
                      Cardinality({m \in AtStore(id) : hm[m].created}) = 1
                /\ \A m \in AtStore(id) :
                    /\ hm[m].pc = "done" =>
                          /\ hm[m].notice # "none" <=> hm[m].created
                          /\ hm[m].decision = "deny"
                    /\ hm[m].pc = "notify" => hm[m].created /\ hm[m].notice = "none"
                /\ \A m \in Msgs :
                    (ReachedDmPolicy(hm[m]) /\ senderId(hm[m].event) = id) =>
                        m \in AtStore(id)

C2_Witness ==
    /\ Pairing
    /\ Unapproved(<<"al">>)
    /\ \E m, k \in AtStore(<<"al">>) :
        /\ hm[m].pc = "done" /\ hm[m].created /\ hm[m].notice = "failed"
        /\ hm[k].pc = "done" /\ hm[k].reason = "pairingRepeat"

Allowlist == cfg.dmEnabled /\ cfg.dmPolicy = "allowlist"

NotLoggedIn == <<"Not", "logged", "in">>

\* The failures a refreshSession call can return.
RefreshFailures ==
    { <<"No", "refresh", "token", "available">>,
      <<"Session", "expired,", "please", "login", "again">>,
      <<"HTTP", "500">>, <<"Unexpected", "response">>,
      <<"Token", "refresh", "failed">>, <<"Could", "not", "extract", "session">> }

\* C11: getValidSession fails with "Not logged in", sending nothing to the
\* platform, when no session is persisted; it returns the persisted session,
\* without a refresh, when that session's access token is not expiring; and
\* with an expiring access token it calls refreshSession once and returns that
\* call's result, a session other than the expiring one or the refresh failure
\* (the error refreshSession throws, when it throws).
C11_GetValidSession ==
    \A p \in Procs :
        LET w == war[p]
            r == Val(w.gv)
        IN  IF IsNull(w.gv)
            THEN w.pc \notin {"idle", "gvRefresh"} =>
                   /\ ~IsNull(w.loaded)
                   /\ isTokenExpiring(Val(w.loaded).accessToken, w.at)
                   /\ w.preRefresh = 1 /\ w.refr[1].ended = "throw"
                   /\ w.out = Some([kind |-> "throw",
                                    err |-> MkErr("refresh", w.refr[1].error)])
                   /\ w.calls = <<>>
            ELSE
              IF IsNull(w.loaded)
              THEN /\ ~r.success /\ r.error = NotLoggedIn
                   /\ w.gvReq = 0 /\ w.preRefresh = 0
              ELSE IF ~isTokenExpiring(Val(w.loaded).accessToken, w.at)
              THEN /\ r.success /\ r.session = w.loaded
                   /\ w.gvReq = 0 /\ w.preRefresh = 0
              ELSE /\ w.preRefresh = 1
                   /\ IF r.success
                      THEN /\ r.session # w.loaded
                           /\ Val(r.session).accessToken.id > Val(w.loaded).accessToken.id
                           /\ w.gvReq = 1
                      ELSE r.error \in RefreshFailures

C11_Witness ==
    \E p \in Procs :
        /\ ~IsNull(war[p].gv) /\ ~IsNull(war[p].loaded)
        /\ isTokenExpiring(Val(war[p].loaded).accessToken, war[p].at)
        /\ Val(war[p].gv).success
        /\ war[p].pc = "call1" /\ war[p].sess = Val(war[p].gv).session

SessionExpired == <<"Session", "expired,", "please", "login", "again">>
RefreshFailed == RefreshFailures \ {NoRefreshToken, SessionExpired}

\* C12: no refreshSession call ends by throwing: every failing call returns a
\* failure result and leaves the persisted session as it was; the failure is
\* "No refresh token available", with no request sent, exactly when the
\* refresh token is missing or empty, "Session expired" for HTTP 401, and a
\* refresh failure for every other response that yields no session.
C12_TypedRefreshFailures ==
    /\ [](\A p \in Procs : \A k \in DOMAIN war[p].refr :
            LET c == war[p].refr[k]
            IN  /\ c.ended # "throw"
                /\ c.ended = "fail" =>
                      /\ ~c.sent <=> c.error = NoRefreshToken
                      /\ c.sent =>
                            IF Val(c.resp).status = 401 THEN c.error = SessionExpired
                            ELSE c.error \in RefreshFailed)
    /\ [][\A p \in Procs :
            (Len(war'[p].refr) > Len(war[p].refr)
                /\ war'[p].refr[Len(war'[p].refr)].ended # "ok") => stored' = stored]_vars

Complete(session) == session.accessToken.id # 0 /\ session.chatAccessToken.id # 0

\* C13: every session verifyOtp or refreshSession has written to the store,
\* and every session getValidSession returns as a success, has a non-empty
\* accessToken and chatAccessToken; a stored record that lacks either token is
\* taken for no session: getValidSession fails with "Not logged in" and
\* withAutoRefresh does not call the operation.
C13_SessionsComplete ==
    /\ (minted > 1 /\ ~IsNull(stored)) => Complete(Val(stored))
    /\ (~IsNull(otp.result) /\ Val(otp.result).success) =>
          Complete(Val(Val(otp.result).session))
    /\ \A p \in Procs :
        LET w == war[p]
        IN  /\ (~IsNull(w.gv) /\ Val(w.gv).success) => Complete(Val(Val(w.gv).session))
            /\ (~IsNull(w.gv) /\ ~IsNull(w.loaded) /\ ~Complete(Val(w.loaded))) =>
                  /\ ~Val(w.gv).success /\ Val(w.gv).error = NotLoggedIn
                  /\ w.calls = <<>>

\* One step of invocation p of withAutoRefresh.
WarStep(p) ==
    \/ WarStart(p)
    \/ GvRefreshDone(p)
    \/ Call1(p)
    \/ RetryRefreshDone(p)
    \/ Call2(p)

\* s is the session the finished refreshSession call rf returned.
SessionOf(rf, s) ==
    /\ rf.ended = "ok"
    /\ s.accessToken = Val(Val(rf.resp).access)
    /\ s.chatAccessToken = Val(Val(rf.resp).chat)
    /\ Complete(s)

FromRefresh(w, s) == \E k \in DOMAIN w.refr : SessionOf(w.refr[k], s)
StillValid(w, s) == w.loaded = Some(s) /\ ~isTokenExpiring(s.accessToken, w.at)
AllDone == \A p \in DOMAIN war : war[p].pc = "done"

\* C14: two withAutoRefresh invocations on one persisted session take no
\* lock.  Every call of the operation is made with a session a successful
\* refresh of that invocation returned, or with the persisted session found
\* not expiring; an invocation that has not finished can always take its next
\* step, whatever the other is doing; every change of the persisted session
\* writes the whole session one successful refresh returned, so that when both
\* have finished it holds the session of the refresh that finished last, its
\* tokens from one response.
C14_ConcurrentRefresh ==
    /\ [](\A p \in DOMAIN war :
            /\ \A k \in DOMAIN war[p].calls :
                  LET s == Val(war[p].calls[k].sess)
                  IN  FromRefresh(war[p], s) \/ StillValid(war[p], s)
            /\ war[p].pc # "done" => ENABLED WarStep(p))
    /\ []((AllDone /\ minted > 1) =>
            /\ Val(stored).accessToken.id = minted
            /\ Val(stored).chatAccessToken.id = minted
            /\ \E p \in DOMAIN war : FromRefresh(war[p], Val(stored)))
    /\ [][stored' # stored =>
            \E p \in DOMAIN war :
                /\ Len(war'[p].refr) = Len(war[p].refr) + 1
                /\ ~IsNull(stored')
                /\ SessionOf(war'[p].refr[Len(war'[p].refr)], Val(stored'))
                /\ minted' = minted + 1]_vars

\* Both invocations have refreshed and finished; the second refresh's session
\* is the persisted one.
C14_Witness ==
    /\ DOMAIN war = Pair
    /\ AllDone
    /\ \A p \in Pair : \E k \in DOMAIN war[p].refr : war[p].refr[k].ended = "ok"
    /\ \A p \in Pair : war[p].calls # <<>>
    /\ requests = 2
    /\ minted = 3
    /\ Val(stored).accessToken.id = 3

(***************************************************************************)
(* More claims about the policy gate, checked under SpecGate.              *)
(***************************************************************************)
Open == cfg.dmEnabled /\ cfg.dmPolicy = "open"

\* The runs that are at the pairing store or have been there.
AtPairing(h) ==
    \/ h.pc \in {"upsert", "notify"}
    \/ h.created
    \/ h.notice # "none"
    \/ h.reason \in {"pairing", "pairingRepeat"}

\* C15: with direct messages enabled and policy open, every direct message
\* that reaches the policy check (sent after the start, by someone other than
\* the account, with a body) is admitted, whatever the static list and the
\* approved list hold, and no pairing request is created.
C15_OpenAdmits ==
    Open =>
        /\ store.requests = {}
        /\ \A m \in Msgs :
            /\ ~AtPairing(hm[m])
            /\ ReachedDmPolicy(hm[m]) => hm[m].decision = "admit"

\* Under policy open a sender no list names is admitted, and so is one while
\* the static list names somebody else.
C15_Witness ==
    /\ Open
    /\ cfg.allowFrom = {Alice}
    /\ store.allowFrom = {}
    /\ \E m \in Msgs :
        /\ ReachedDmPolicy(hm[m]) /\ hm[m].event.from = Bob
        /\ hm[m].decision = "admit"

\* C16: with direct messages disabled (dm.enabled false) or policy disabled, no
\* direct message is admitted, and handling one creates no pairing request and
\* sends nothing to the sender.
C16_DisabledDenies ==
    (~cfg.dmEnabled \/ cfg.dmPolicy = "disabled") =>
        /\ store.requests = {}
        /\ \A m \in Msgs :
            /\ ~AtPairing(hm[m])
            /\ ~isElymentsGroup(hm[m].event.from) => hm[m].decision # "admit"

\* Under policy disabled a sender the wildcard names is denied; so is one with
\* direct messages switched off under policy open.
C16_Witness ==
    /\ cfg.allowFrom = {<<"*">>}
    /\ \/ cfg.dmEnabled /\ cfg.dmPolicy = "disabled"
       \/ ~cfg.dmEnabled /\ cfg.dmPolicy = "open"
    /\ \E m \in Msgs :
        /\ ReachedDmPolicy(hm[m]) /\ hm[m].event.from = Alice
        /\ hm[m].reason = "dmDisabled" /\ hm[m].decision = "deny"

\* Run m reads the approved list in this step, for a direct message of a
\* sender whose id the approved list holds, under policy pairing or allowlist.
ReadsApproved(m) ==
    /\ hm[m].pc = "readStore"
    /\ hm'[m].pc # "readStore"
    /\ ~isElymentsGroup(hm[m].event.from)
    /\ cfg.dmEnabled
    /\ cfg.dmPolicy \in {"pairing", "allowlist"}
    /\ senderId(hm[m].event) \in store.allowFrom

\* Run m has admitted the message and has not touched the pairing store.
AdmitsQuietly(m) ==
    /\ hm'[m].decision = "admit"
    /\ ~AtPairing(hm'[m])
    /\ store' = store

EntriesOf(e) ==
    LET byChat == {g \in cfg.groups : g.key = e.from}
        bySender == {g \in cfg.groups : g.key = extractUserId(e.from)}
    IN  IF byChat # {} THEN byChat ELSE bySender

\* C18: under group policy allowlist a group message is denied whenever its
\* group has no configuration entry (under the chat id, then under the sender
\* id) or the entry has enabled false, with or without a mention or a control
\* command; under group policy disabled every group message is denied.
C18_GroupAllowlistDenies ==
    \A m \in Msgs :
        LET e == hm[m].event
            closed ==
                \/ cfg.groupPolicy = "disabled"
                \/ /\ cfg.groupPolicy = "allowlist"
                   /\ \/ EntriesOf(e) = {}
                      \/ \E g \in EntriesOf(e) : g.enabled = "false"
        IN  (isElymentsGroup(e.from) /\ closed) =>
                /\ hm[m].decision # "admit"
                /\ hm[m].pc \in {"readStore", "done"}
                /\ hm[m].pc = "done" => hm[m].decision = "deny"

\* Under policy allowlist a control command its sender is authorized for is
\* denied in a group whose entry is switched off, and a message with a mention
\* is denied in a group without an entry.
C18_Witness ==
    /\ cfg.groupPolicy = "allowlist"
    /\ ~cfg.useAccessGroups
    /\ \E m, k \in Msgs :
        /\ hm[m].event.from = Group1 /\ hm[m].event.body = <<"/cmd">>
        /\ hm[m].reason = "groupOff" /\ hm[m].decision = "deny"
        /\ hm[k].event.from = Group2 /\ hm[k].event.body = <<"@bot", "hi">>
        /\ hm[k].reason = "groupNotListed" /\ hm[k].decision = "deny"

\* part_001 148-158: the plugin's groups.resolveRequireMention for a group id.
resolveRequireMention(groupId) ==
    LET found == {g \in cfg.groups : g.key = groupId}
        groupConfig0 == CHOOSE g \in found : TRUE
    IN  IF found = {} THEN TRUE
        ELSE IF groupConfig0.autoReply = "true" THEN FALSE
        ELSE IF groupConfig0.autoReply = "false" THEN TRUE
        ELSE groupConfig0.requireMention # "false"

\* Whether the rule asks for a mention in the group an event is from.
MentionRule(e) ==
    IF EntriesOf(e) = {} THEN TRUE
    ELSE LET g == CHOOSE x \in EntriesOf(e) : TRUE
         IN  IF g.autoReply = "true" THEN FALSE
             ELSE IF g.autoReply = "false" THEN TRUE
             ELSE g.requireMention # "false"

\* The group messages handled so far.
GroupRuns == {m \in Msgs : hm[m].pc # "idle" /\ isElymentsGroup(hm[m].event.from)}

\* C19: for a group message the monitor requires a mention by the rule: not if
\* the group's entry has autoReply true, always if it has autoReply false,
\* otherwise unless requireMention is false (no entry: required); and the
\* plugin's groups.resolveRequireMention, asked about the chat, returns the
\* value the monitor computes.
C19_SameMentionRule ==
    \A m \in GroupRuns :
        /\ shouldRequireMention(hm[m].event) = MentionRule(hm[m].event)
        /\ resolveRequireMention(hm[m].event.from) = shouldRequireMention(hm[m].event)

\* The run h has ended for a group message that got to the mention check, in
\* a group where a mention is required, and the message has no mention.
UnmentionedRun(h) ==
    /\ h.pc = "done"
    /\ isElymentsGroup(h.event.from)
    /\ h.reason \in {"admit", "noMention", "unauthorizedCommand"}
    /\ shouldRequireMention(h.event)
    /\ ~wasMentioned(h.event)

\* The sender of the run's message passes command authorization.
SenderAuthorized(h) == commandAuthorized(h.event, effectiveAllowFrom(h.storeRead))

Emitted(m) == dec[m].pc = "emitted"
Echoed(m) == dec[m].echo # 0

\* C22: the body envelope sendText builds for a text t, decoded by
\* handleStanza, yields a "message" event whose body is t.
C22_RoundTrip ==
    \A m \in Msgs :
        Echoed(m) => Emitted(m) /\ dec[m].event.body = outbox[dec[m].echo].text

\* A string is present when it is there and not empty.
Present(v) == ~IsNull(v) /\ Val(v).t = "str" /\ Val(v).s # <<>>
InfoOf(raw, key) == Member(Member(JSONparse(raw), <<"info">>), <<key>>)
ParsesAsJson(raw) == ~IsNull(JSONparse(raw))
Direct(m) == Emitted(m) /\ IsNull(dec[m].stanza.mam)

Archived(m) == dec[m].pc # "idle" /\ ~IsNull(dec[m].stanza.mam)
InnerBody(m) == Val(dec[m].stanza.mam).inner
DelayStamp(m) == Val(dec[m].stanza.mam).stamp

\* C24: an archive-wrapped stanza with an inner body decodes to an event
\* with the inner message's text, whatever the outer body; its timestamp is
\* the delay stamp whatever the receive time, and the receive time only
\* when there is no delay stamp.  A stanza that is not wrapped gets the
\* receive time.
C24_ArchiveUnwrapped ==
    \A m \in Msgs :
        /\ Archived(m) /\ InnerBody(m) # <<>>
               => Emitted(m) /\ dec[m].event.body = <<"archived">>
        /\ Archived(m) /\ Emitted(m) /\ DelayStamp(m) # NoStamp
               => dec[m].event.timestamp = DelayStamp(m) * 1000
        /\ Archived(m) /\ Emitted(m) /\ DelayStamp(m) = NoStamp
               => dec[m].event.timestamp = dec[m].at
        /\ Direct(m) => dec[m].event.timestamp = dec[m].at

\* An archived message stamped 40 s, received at 30 s under another outer
\* body, has decoded to the inner text and the stamp.
C24_Witness ==
    \E m \in Msgs :
        /\ Archived(m) /\ Emitted(m)
        /\ dec[m].stanza.body = <<"outer">>
        /\ InnerBody(m) = InfoBody(<<Message(<<"archived">>)>>)
        /\ DelayStamp(m) = 40
        /\ dec[m].at = 30000
        /\ dec[m].event.timestamp = 40000

EndsInGroupDomain(jid) ==
    Len(jid) >= 2 /\ jid[Len(jid) - 1] = "@" /\ jid[Len(jid)] = "muclight.localhost"

\* C26 as stated: a stanza is of type groupchat exactly when its target ends
\* in @muclight.localhost, and of type chat otherwise.
C26_Original ==
    \A k \in DOMAIN outbox :
        outbox[k].type = IF EndsInGroupDomain(outbox[k].to) THEN "groupchat" ELSE "chat"

\* C26: every stanza sendText, sendMedia, sendComposing and sendPaused write
\* is of type groupchat exactly when its target contains @muclight.localhost
\* (isElymentsGroup), and of type chat otherwise.
C26_TypeByGroupDomain ==
    \A k \in DOMAIN outbox :
        outbox[k].type = IF isElymentsGroup(outbox[k].to) THEN "groupchat" ELSE "chat"

\* sendText has written a groupchat stanza to a group and sendMedia's
\* sibling calls are covered by the same state shape.
C26_Witness ==
    \E k \in DOMAIN outbox :
        /\ outbox[k].kind = "text"
        /\ outbox[k].to = Group1
        /\ outbox[k].type = "groupchat"

(***************************************************************************)
(* Claims about the inbound pipeline, checked under SpecInbound.           *)
(***************************************************************************)
RunsOf(m) == {k \in Msgs : disp[k].of = m}
Handed(k) == disp[k].handed > 0
Denied(k) == hm[k].decision = "deny"

\* Only admitted events are handed over, every run hands its event over at
\* most once, and a denied event's run sends nothing but the pairing notice
\* of a request it created.
HandedOnlyWhenAdmitted ==
    \A k \in Msgs :
        /\ disp[k].handed <= 1
        /\ Handed(k) => hm[k].decision = "admit"
        /\ Denied(k) => /\ disp[k].pc = "idle" /\ ~Handed(k) /\ disp[k].replies = 0
                        /\ hm[k].notice # "none" => hm[k].reason = "pairing" /\ hm[k].created

\* C21: every decoded event is handed to the reply dispatcher at most once,
\* and only when the decision for it is admit; a denied event is never handed
\* over and causes no send other than the one pairing notice.
C21_HandedAtMostOnce ==
    /\ HandedOnlyWhenAdmitted
    /\ \A m \in Msgs : Cardinality({k \in RunsOf(m) : Handed(k)}) <= 1

\* C25: a stanza whose from address contains the session's userId is dropped
\* by the decode: no "message" event is emitted for it, no handleMessage run
\* starts for it and nothing is handed to the reply dispatcher, in direct and
\* in group chats.
C25_SelfEchoDropped ==
    \A m \in Msgs :
        dec[m].pc # "idle" /\ Includes(dec[m].stanza.from, LocalUserId)
            => dec[m].pc = "dropped" /\ RunsOf(m) = {}

\* The account's own message in a group has come back and was dropped, while
\* another stanza was handed over.
C25_Witness ==
    \E m, n \in Msgs :
        /\ dec[m].pc = "dropped"
        /\ dec[m].stanza.from = GroupSelf
        /\ \E k \in RunsOf(n) : Handed(k)

(***************************************************************************)
(* Claims about isTokenExpiring, checked under SpecLogin.                  *)
(***************************************************************************)
HasExp(token) == token.id # 0 /\ token.exp \notin {NoExp, Undecodable}
Judged(p) == war[p].pc # "idle" /\ ~IsNull(war[p].loaded)
JudgedExpiring(p) == war[p].preRefresh > 0

\* C27: isTokenExpiring(token), as getValidSession applies it at time now to
\* the stored access token, is true when the token has a decodable exp claim
\* with exp * 1000 <= now + 60000, and false when the token has no exp claim,
\* an undecodable payload, or exp * 1000 > now + 60000.
C27_ExpiringByExpClaim ==
    \A p \in Procs :
        Judged(p) =>
            LET token == Val(war[p].loaded).accessToken
            IN  JudgedExpiring(p)
                    <=> HasExp(token) /\ token.exp * 1000 <= war[p].at + BufferMs

\* The same with an exp claim of 0 counted as no exp claim.
ExpiringByNonZeroExpClaim ==
    \A p \in Procs :
        Judged(p) =>
            LET token == Val(war[p].loaded).accessToken
            IN  JudgedExpiring(p)
                    <=> /\ HasExp(token) /\ token.exp # 0
                        /\ token.exp * 1000 <= war[p].at + BufferMs

(***************************************************************************)
(* Claims about the device identity, checked under SpecDevice.             *)
(***************************************************************************)
Identity(d) == IF d < 0 THEN 0 - d ELSE d

\* C29: the device identity is created at most once, and every later
\* getOrCreateDevice returns the same identity, across login, refresh,
\* logout and re-login: once an identity exists, every identity the device
\* file holds afterwards is that one.
C29_OneDeviceIdentity ==
    [][device # 0 /\ device' > 0 => device' = Identity(device)]_vars

(***************************************************************************)
(* Claims about the monitor's shutdown, checked under SpecMonitorFair.     *)
(***************************************************************************)
ShutdownOrders ==
    { <<d, "clear", "resolve">> : d \in {"disconnect", "disconnectThrew"} }
Settled == mon.pc \in {"returned", "threw"}

\* The steps of onAbort come in the order disconnect, clear, resolve; the
\* disconnect, once issued, has stopped the keep-alive and the transport of
\* the instance; the shared reference is held until the disconnect was issued
\* and is cleared from then on; the wait is resolved only after both.
ShutdownInOrder ==
    /\ \E o \in ShutdownOrders : IsPrefix(mon.did, o)
    /\ mon.did # <<>> /\ mon.did[1] = "disconnect" /\ cur # 0
           => timers = {} /\ (dis[cur].pc = "stopping" \/ inst[cur].xmpp = 0)
    /\ mon.pc \in {"connecting", "waiting", "onAbort", "finally"} => mon.client # 0
    /\ Len(mon.did) >= 2 => mon.client = 0
    /\ mon.pc \in {"resolved", "returned"} => mon.did \in ShutdownOrders /\ mon.client = 0
    /\ mon.pc \notin {"onAbort", "finally", "resolving", "resolved", "returned", "thrown"}
           => mon.did = <<>>

Resolved == dir.pc = "done" /\ dir.calls > 0
AddressQueries ==
    { Alice, <<"AL", "@", "localhost">>, <<" ", "al", "@", "localhost", " ">>, Group1 }

\* The address a query stands for, lower-cased and without the white space
\* around it, and the title the index held under it when the call was made.
Canonical(query) == IF query = Group1 THEN Group1 ELSE Alice
CachedTitle(address) ==
    IF \E x \in dir.seen : x.key = address /\ x.title # <<>>
    THEN (CHOOSE x \in dir.seen : x.key = address).title
    ELSE address

\* C30 as stated: for a query that is an address the call returns the query
\* verbatim, with the cached title when the address is indexed, and makes no
\* directory-listing call.
C30_Original ==
    Resolved /\ dir.query \in AddressQueries
        => /\ ~IsNull(dir.result)
           /\ Val(dir.result).jid = dir.query
           /\ dir.listings = <<>>

\* C30: for a query that is an address the call returns the address in lower
\* case and without surrounding white space, with the title the index holds
\* under that address when it holds a non-empty one and the address itself
\* as title otherwise, and makes no directory-listing call.
C30_NormalizedAddress ==
    Resolved /\ dir.query \in AddressQueries
        => /\ ~IsNull(dir.result)
           /\ Val(dir.result).jid = Canonical(dir.query)
           /\ Val(dir.result).title = CachedTitle(Canonical(dir.query))
           /\ Val(dir.result).isGroup = (dir.query = Group1)
           /\ dir.listings = <<>>

\* An address in upper case was resolved to the indexed address with its
\* cached title.
C30_Witness ==
    /\ Resolved
    /\ dir.query = <<"AL", "@", "localhost">>
    /\ dir.result = Some(MkEntry(Alice, <<"AL">>, FALSE))

NameQueries == { <<"AL">>, <<"r">>, <<"bo">> }
Finished == dir.pc \in {"done", "threw"} /\ dir.calls > 0

\* The entries the index held under the query's key when the call was made.
SeenUnder(query) == {x \in dir.seen : x.key = NormalizeQuery(query)}
Under(index, query) == {x \in index : x.key = NormalizeQuery(query)}

\* C31 as stated: a call for a query that is not an address and is not
\* indexed has, when it ends, called the direct-chat listing and the group
\* listing once each.
C31_Original ==
    Finished /\ dir.query \in NameQueries /\ SeenUnder(dir.query) = {}
        => dir.listings = <<"listChats", "listGroups">>

\* What holds in every state of a call: the listings are called at most once
\* each and in this order, and a call that has returned for a query that is
\* not an address has made no listing call and returned the indexed entry
\* when the key was indexed, and has made both listing calls when it was not.
ResolveBounded ==
    /\ dir.listings \in {<<>>, <<"listChats">>, <<"listChats", "listGroups">>}
    /\ dir.query \in NameQueries
           => /\ SeenUnder(dir.query) # {} => dir.listings = <<>>
              /\ Resolved /\ SeenUnder(dir.query) # {}
                     => \E x \in SeenUnder(dir.query) :
                            dir.result = Some(MkEntry(x.jid, x.title, x.isGroup))
              /\ Resolved /\ SeenUnder(dir.query) = {}
                     => dir.listings = <<"listChats", "listGroups">>
              /\ dir.pc = "threw" => SeenUnder(dir.query) = {} /\ dir.listings # <<>>

\* The step that returns after the listings returns the entry the index then
\* holds under the key, and null when it holds none.
RetriedOnce ==
    dir.pc = "listGroups" /\ dir'.pc = "done"
        => /\ Under(dir'.index, dir.query) = {} => dir'.result = Null
           /\ Under(dir'.index, dir.query) # {}
                  => \E x \in Under(dir'.index, dir.query) :
                         dir'.result = Some(MkEntry(x.jid, x.title, x.isGroup))

\* C31: resolveRecipient for a query that is not an address returns the
\* indexed entry with no listing call when its lower-cased, trimmed key is in
\* the index; otherwise it calls the direct-chat listing and then the group
\* listing, at most once each, fails with the error of a listing call that
\* fails without making a further call, and after both returned looks the key
\* up once more and returns the entry found or null.
C31_RefreshOnceThenRetry == []ResolveBounded /\ [][RetriedOnce]_vars

\* A name missing from the index was found after one refresh of each listing.
C31_Witness ==
    /\ Resolved
    /\ dir.query = <<"r">>
    /\ SeenUnder(dir.query) = {}
    /\ dir.listings = <<"listChats", "listGroups">>
    /\ dir.result = Some(MkEntry(Group1, <<"R">>, TRUE))

(***************************************************************************)
(* Claims about the session a refresh persists, checked under SpecAuth.    *)
(***************************************************************************)
\* Invocation p's refreshSession call ends successfully in this step.
RefreshSucceeds(p) ==
    /\ Len(war'[p].refr) = Len(war[p].refr) + 1
    /\ war'[p].refr[Len(war'[p].refr)].ended = "ok"

\* The session refreshSession hands to its caller in that step.
HandedBack(p) == IF war[p].pc = "gvRefresh" THEN war'[p].sess ELSE war'[p].refreshed

PersistsRefreshed(p) ==
    LET resp == Val(war'[p].refr[Len(war'[p].refr)].resp)
        previous == Val(war[p].cur)
    IN  /\ ~IsNull(stored')
        /\ Val(stored').accessToken = Val(resp.access)
        /\ Val(stored').chatAccessToken = Val(resp.chat)
        /\ Val(stored').userId =
               IF IsNull(resp.userId) THEN previous.userId ELSE Val(resp.userId)
        /\ Val(stored').refreshToken =
               IF IsNull(resp.refresh) THEN previous.refreshToken ELSE Val(resp.refresh)
        /\ Val(stored').savedAt = now
        /\ HandedBack(p) = stored'

\* C32: the step in which a refresh succeeds persists a session with the
\* access token and chat access token of the response, the userId and the
\* refresh token of the response or, where the response has none, of the
\* session the refresh started from, and the current time as savedAt; the
\* session handed to the caller is the persisted one.
C32_RefreshPersists ==
    [][\A p \in DOMAIN war : RefreshSucceeds(p) => PersistsRefreshed(p)]_vars

\* A response without userId and refresh token was persisted, after the clock
\* had advanced, with the previous userId and refresh token.
C32_Witness ==
    \E p \in DOMAIN war :
        /\ war[p].refr # <<>>
        /\ LET last == war[p].refr[Len(war[p].refr)]
           IN  /\ last.ended = "ok"
               /\ IsNull(Val(last.resp).userId) /\ IsNull(Val(last.resp).refresh)
               /\ stored = Some(MkSession("u1", Val(Val(last.resp).access),
                                          Val(Val(last.resp).chat), Tok(1, NoExp), now))
        /\ now > 0

(***************************************************************************)
(* Claims about session extraction, checked under SpecExtract.             *)
(***************************************************************************)
\* The payloads a response holds: itself and the objects under its wrapper keys.
Located(r) ==
    {r} \cup {Val(Member(Some(r), WrapperKeys[k])) :
                k \in {n \in DOMAIN WrapperKeys :
                         /\ ~IsNull(Member(Some(r), WrapperKeys[n]))
                         /\ Val(Member(Some(r), WrapperKeys[n])).t = "obj"}}

\* The field is there, and not empty, under one of its spellings.
HasField(p, keys) == \E k \in DOMAIN keys : Truthy(Member(Some(p), keys[k]))
HasUserId(p) == HasField(p, UserIdKeys) \/ Truthy(Member(Member(Some(p), "user"), "id"))
HasRequired(p, kind) ==
    /\ HasField(p, AccessTokenKeys)
    /\ HasField(p, ChatAccessTokenKeys)
    /\ kind = "verify" => HasUserId(p)

Extracted == ext.pc = "done" /\ IsObject(ext.response)

\* C33: extraction succeeds exactly when one of the payloads of the response
\* (at top level or under ResponseData, result or data) has the access token
\* and the chat access token (and, for OTP verify, the userId) under at least
\* one of the probed spellings; it fails only when no payload has.
C33_AnyWrapperAnySpelling ==
    Extracted =>
        (~IsNull(ext.result) <=> \E p \in Located(Val(ext.response)) : HasRequired(p, ext.kind))

\* The same restricted to the responses that hold one payload, under one
\* wrapper key or at top level, with each field under one spelling.
PlainResponses == UNION {Wrapped(p) : p \in Payloads}
ExtractsPlainResponses ==
    Extracted /\ Val(ext.response) \in PlainResponses
        => (~IsNull(ext.result) <=>
                \E p \in Located(Val(ext.response)) : HasRequired(p, ext.kind))

(***************************************************************************)
(* Claims about the keep-alive probe, checked under SpecConn.              *)
(***************************************************************************)
LeavesOnline(i) == inst[i].connected /\ ~inst'[i].connected
OfflineReported(i) ==
    \E t \in Trans : tr[t].owner = i /\ tr[t].status = "online" /\ tr'[t].status = "offline"
\* disconnect() sets connected to false at its end: after stop() has settled,
\* or at once on an instance that holds no transport.
DisconnectEnds(i) ==
    \/ dis[i].pc = "stopping" /\ dis'[i].pc = "idle"
    \/ inst[i].xmpp = 0 /\ dis[i].pc = "idle" /\ UNCHANGED <<tr, pings, ev>>
ProbeFails == pings'.failed = pings.failed + 1

\* C34: an instance leaves Online only in the step of its transport's
\* "offline" event or of a disconnect() call on it; the step in which a
\* liveness probe fails to send leaves every instance, every armed keep-alive
\* timer and the emitted and forwarded events as they are.
C34_ProbeFailureIgnored ==
    [][/\ \A i \in Insts : LeavesOnline(i) => OfflineReported(i) \/ DisconnectEnds(i)
       /\ ProbeFails => UNCHANGED <<inst, timers, ev, heard, tr, cur>>]_vars

\* A probe failed to send and the instance is still Online with its timer
\* armed and no "offline", "disconnected" or "error" event emitted.
C34_Witness ==
    /\ pings.failed = 1
    /\ \E i \in Insts :
         /\ inst[i].connected
         /\ TimersOf(i) # {}
         /\ \A n \in DOMAIN ev[i] : ev[i][n].name \notin {"offline", "disconnected", "error"}

(***************************************************************************)
(* Claims about the group branch of the gate, checked under SpecGate.      *)
(***************************************************************************)
\* Is the sender of e on the user allow-list of the entry g: by the wildcard,
\* by id or by display name, letter case aside?
DisplayNameOf(e) == IF e.senderName # <<>> THEN e.senderName ELSE extractUserId(e.from)
OnUserList(e, g) ==
    \E entry \in g.users :
        \/ entry = <<"*">>
        \/ toLowerCase(entry) = toLowerCase(extractUserId(e.from))
        \/ toLowerCase(entry) = toLowerCase(DisplayNameOf(e))

\* C35: under group policy allowlist a group message whose group entry has a
\* non-empty user allow-list that holds neither the wildcard nor the sender's
\* id nor the sender's display name (letter case aside) is never admitted and
\* ends denied; the gate gives this reason only for such a message.
C35_GroupUsersAllowlist ==
    \A m \in Msgs :
        LET e == hm[m].event
            offList == \E g \in EntriesOf(e) : g.users # {} /\ ~OnUserList(e, g)
        IN  /\ (isElymentsGroup(e.from) /\ cfg.groupPolicy = "allowlist" /\ offList) =>
                /\ hm[m].decision # "admit"
                /\ hm[m].pc \in {"readStore", "done"}
                /\ hm[m].pc = "done" => hm[m].decision = "deny"
            /\ hm[m].reason = "userBlocked" =>
                isElymentsGroup(e.from) /\ cfg.groupPolicy = "allowlist" /\ offList

\* A message with a mention was denied because its sender is not on the
\* group's user allow-list.
C35_Witness ==
    \E m \in Msgs :
        /\ hm[m].event.from = Group1 /\ hm[m].event.body = <<"@bot", "hi">>
        /\ hm[m].reason = "userBlocked" /\ hm[m].decision = "deny"

(***************************************************************************)
(* Claims about events from before the monitor's start, checked under      *)
(* SpecInbound.                                                            *)
(***************************************************************************)
\* C36: a handleMessage run whose event carries a timestamp earlier than the
\* start time the run compares with ends at once, denied as old: it never
\* waits for the approved list, evaluates no policy, creates no pairing
\* request, sends no notice, hands nothing to the reply dispatcher and
\* produces no reply.
C36_OldEventsDropped ==
    \A k \in Msgs :
        (hm[k].pc # "idle" /\ hm[k].event.timestamp < StartupMs) =>
            /\ hm[k].pc = "done" /\ hm[k].decision = "deny" /\ hm[k].reason = "old"
            /\ hm[k].storeRead = {} /\ ~hm[k].created /\ hm[k].notice = "none"
            /\ disp[k].pc = "idle" /\ disp[k].handed = 0 /\ disp[k].replies = 0

\* An archived message of a sender was dropped as old, while a new message of
\* the same sender created a pairing request.
C36_Witness ==
    \E m, k \in Msgs :
        /\ hm[m].event.from = Alice /\ hm[m].event.body = <<"archived">>
        /\ hm[m].event.timestamp < StartupMs /\ hm[m].reason = "old"
        /\ hm[k].event.from = Alice /\ hm[k].event.timestamp >= StartupMs
        /\ hm[k].created

(***************************************************************************)
(* Claims about control commands and group policy open, checked under      *)
(* SpecGate.                                                               *)
(***************************************************************************)
\* The sender of the run's event may not give commands: access groups are on
\* and the lists the run works with name neither everyone nor the sender.
MayNotCommand(m) ==
    LET e == hm[m].event
        lists == { trim(toLowerCase(entry)) : entry \in cfg.allowFrom \cup hm[m].storeRead }
    IN  /\ cfg.useAccessGroups
        /\ \A entry \in lists :
            /\ entry # <<"*">>
            /\ entry # toLowerCase(extractUserId(e.from))
            /\ entry # toLowerCase(e.from)
CarriesCommand(m) == Includes(trim(hm[m].event.body), "/cmd")

\* C37: with text commands enabled, a decided group message that carries a
\* control command from a sender who may not give commands is denied, with or
\* without a mention and whether or not the group requires one; the gate
\* gives this reason only for such a group message, never for a direct
\* message.
C37_UnauthorizedCommandDropped ==
    \A m \in Msgs :
        LET e == hm[m].event
            case == /\ isElymentsGroup(e.from) /\ cfg.allowTextCommands
                    /\ CarriesCommand(m) /\ MayNotCommand(m)
        IN  /\ (hm[m].pc = "done" /\ case) => hm[m].decision = "deny"
            /\ hm[m].reason = "unauthorizedCommand" => (hm[m].pc = "done" /\ case)
            /\ (hm[m].pc = "done" /\ ~isElymentsGroup(e.from)) =>
                    hm[m].reason # "unauthorizedCommand"

\* In a group that requires no mention, a command that mentions the bot was
\* dropped as unauthorized, while the same configuration admitted a direct
\* message with a command from a sender who may not give commands.
C37_Witness ==
    \E m, k \in Msgs :
        /\ hm[m].event.from = Group1 /\ hm[m].event.body = <<"@bot", "/cmd">>
        /\ ~shouldRequireMention(hm[m].event)
        /\ hm[m].reason = "unauthorizedCommand" /\ hm[m].decision = "deny"
        /\ hm[k].event.from = AliceDevice /\ CarriesCommand(k) /\ MayNotCommand(k)
        /\ hm[k].pc = "done" /\ hm[k].decision = "admit"

\* What the entry of the run's group, if any, says about mentions.
MentionNeeded(m) ==
    LET entries == EntriesOf(hm[m].event)
    IN  IF \E g \in entries : g.autoReply = "true" THEN FALSE
        ELSE IF \E g \in entries : g.autoReply = "false" THEN TRUE
        ELSE ~\E g \in entries : g.requireMention = "false"
Mentions(m) == Includes(trim(hm[m].event.body), "@bot")

\* The run has passed the filters that come before every policy (age, own
\* messages, blank body) and has been decided.
DecidedByPolicy(m) ==
    hm[m].pc = "done" /\ hm[m].reason \notin {"old", "self", "blank", "none"}

\* C38: under group policy open a group message that the policies decide is
\* admitted exactly when it is not an unauthorized control command and, where
\* a mention is required, it mentions the bot or is a command that stands in
\* for the mention; a missing entry, an entry with enabled = false and the
\* entry's user allow-list are never the reason of a denial.
C38_OpenIgnoresGroupEntries ==
    \A m \in Msgs :
        LET e == hm[m].event
            command == cfg.allowTextCommands /\ CarriesCommand(m)
            gated == command /\ MayNotCommand(m)
            standsIn == command /\ ~MayNotCommand(m)
        IN  (isElymentsGroup(e.from) /\ cfg.groupPolicy = "open") =>
                /\ hm[m].reason \notin {"groupNotListed", "groupOff", "userBlocked",
                                        "groupDisabled"}
                /\ DecidedByPolicy(m) =>
                    (hm[m].decision = "admit" <=>
                        (~gated /\ (MentionNeeded(m) => (Mentions(m) \/ standsIn))))

\* Under policy open a message was admitted from a group whose entry has
\* enabled = false and a user allow-list without the sender, and another from
\* a group without an entry.
C38_Witness ==
    \E m, k \in Msgs :
        /\ cfg.groupPolicy = "open"
        /\ hm[m].event.from = Group1 /\ hm[m].decision = "admit"
        /\ \E g \in EntriesOf(hm[m].event) :
            g.enabled = "false" /\ g.users # {} /\ ~OnUserList(hm[m].event, g)
        /\ hm[k].event.from = Group2 /\ EntriesOf(hm[k].event) = {}
        /\ hm[k].decision = "admit"

(***************************************************************************)
(* Claims about replaced and reused streaming clients, checked under       *)
(* SpecReconnect.                                                          *)
(***************************************************************************)
\* C39: every event ElymentsClient has re-emitted to its listeners came from
\* the ElymentsXmppClient it held at the time; no event of a replaced
\* instance is re-emitted.
C39_OnlyCurrentForwarded == \A h \in heard : ~h.stale

\* A connect() call on ElymentsXmppClient i begins in this step.
Called(c, i) ==
    /\ con[c].pc = "idle" /\ con'[c].pc # "idle"
    /\ con'[c].via = "xmpp" /\ con'[c].inst = i

\* The instance's disconnect() settles in this step.
DisconnectSettles(i) == dis[i].pc = "stopping" /\ dis'[i].pc = "idle"

\* C40: an ElymentsXmppClient that holds a transport handle holds one until
\* its disconnect() settles; a connect() call on an instance that holds a
\* handle (after a failed handshake and after "offline" too) returns at once:
\* it creates no transport, emits nothing and changes nothing; a call that
\* goes on to attempt a connection finds no handle, so after the first
\* attempt only a settled disconnect() makes a new attempt possible.
C40_HandleKeptUntilDisconnect ==
    [][\A i \in Insts :
        /\ (inst[i].xmpp # 0 /\ inst'[i].xmpp = 0) => DisconnectSettles(i)
        /\ \A c \in Connects :
            Called(c, i) =>
                IF inst[i].xmpp # 0
                THEN /\ con'[c].pc = "done" /\ con'[c].noop /\ con'[c].t = 0
                     /\ UNCHANGED <<inst, cur, tr, onl, dis, timers, ev, heard>>
                ELSE con'[c].noop <=> inst[i].connected
        /\ \A t \in Trans :
            (tr[t].status = "none" /\ tr'[t].status = "starting" /\ tr'[t].owner = i) =>
                \E c \in Connects :
                    con[c].pc = "import" /\ con[c].inst = i /\ con'[c].t = t]_vars

\* After a failed handshake the first later connect() call returned at once;
\* disconnect() has settled since, and the second call has started a new
\* attempt on the same instance.
C40_Witness ==
    /\ tr[1].owner = 1 /\ tr[1].status = "stopped" /\ onl[1].pc = "idle"
    /\ con[1].inst = 1 /\ con[1].noop /\ con[1].pc = "done"
    /\ con[2].inst = 1 /\ ~con[2].noop /\ con[2].pc = "starting" /\ con[2].t = 2
    /\ inst[1].xmpp = 2 /\ tr[2].status = "starting"

====
